---- MODULE Spec2Model ----
(***************************************************************************)
(* Benchmark runner of the evaluation framework                            *)
(* (src/evaluation-framework/run_benchmark.py): discovery of benchmarks,   *)
(* one run_benchmark call with its verification subprocess, the sweep of   *)
(* run_all_benchmarks, and the command line entry point.                   *)
(***************************************************************************)
EXTENDS Integers, Sequences, FiniteSets, TLC

(***************************************************************************)
(* Bounds of the model                                                     *)
(***************************************************************************)
\* largest number of entries of the benchmarks directory
MaxBench == 2
\* last reading of the UTC clock
MaxClock == 1
\* the runner is invoked at most this many times on one results directory
MaxRuns == 2
\* the last reading of the clock, in half seconds, while it is
MaxTicks == 2

\* the largest capacity of an LRUCache; there is one key more than that
MaxCapacity == 2

\* the threads that use an object of benchmark concurrency-001 at the same
\* time
MaxThreads == 2

\* the calls these threads make altogether
MaxCalls == 2

\* the largest num_workers of a WorkerPool
MaxWorkers == 2

\* the most tasks submitted to a WorkerPool
MaxTasks == 2

(***************************************************************************)
(* Benchmark names and their order                                         *)
(***************************************************************************)
\* directory names that can occur under benchmarks/ (or be given on the
\* command line)
AllNames == {"a", "ab", "b"}

\* the characters of a name, as code points
NameChars(n) ==
  CASE n = "a"  -> <<97>>
    [] n = "ab" -> <<97, 98>>
    [] n = "b"  -> <<98>>
    [] n = "unknown" -> <<117, 110, 107, 110, 111, 119, 110>>

RECURSIVE SeqLess(_, _)
\* Python's str.__lt__ on the code points: lexicographic, a proper prefix
\* is smaller
SeqLess(s, t) ==
  IF t = <<>> THEN FALSE
  ELSE IF s = <<>> THEN TRUE
  ELSE IF Head(s) # Head(t) THEN Head(s) < Head(t)
  ELSE SeqLess(Tail(s), Tail(t))

StrLess(m, n) == SeqLess(NameChars(m), NameChars(n))

RECURSIVE sorted(_)
\* sorted(benchmarks): the names of the set S in ascending order
sorted(S) ==
  IF S = {} THEN <<>>
  ELSE LET least == CHOOSE m \in S : \A n \in S \ {m} : StrLess(m, n)
       IN  <<least>> \o sorted(S \ {least})

(***************************************************************************)
(* Dictionaries                                                            *)
(***************************************************************************)
\* d[k] = v on a Python dict
Put(d, k, v) == (k :> v) @@ d

\* d.get(k, default)
Get(d, k, default) == IF k \in DOMAIN d THEN d[k] ELSE default

EmptyDict == [x \in {} |-> 0]

\* the value None
None == "None"

\* the dict with no key; keys holds the keys in insertion order, which
\* is the order in which values() and items() give them
EmptyGroups == [keys |-> <<>>, lists |-> EmptyDict]

(***************************************************************************)
(* Text written by a verification script, and its decoding                 *)
(***************************************************************************)
\* An output is a sequence of tokens: JSON punctuation, one token per
\* object member, a letter that is no JSON, carriage return, line feed, and
\* a byte that is no valid UTF-8.
MemberTokens ==
  {"benchmark:a", "benchmark:ab", "benchmark:b", "passed:true",
   "passed:false", "final_score:100", "final_score:40", "exit_code:9"}

MemberKey(tok) ==
  CASE tok \in {"benchmark:a", "benchmark:ab", "benchmark:b"} -> "benchmark"
    [] tok \in {"passed:true", "passed:false"} -> "passed"
    [] tok \in {"final_score:100", "final_score:40"} -> "final_score"
    [] tok = "exit_code:9" -> "exit_code"

MemberValue(tok) ==
  CASE tok = "benchmark:a" -> "a"
    [] tok = "benchmark:ab" -> "ab"
    [] tok = "benchmark:b" -> "b"
    [] tok = "passed:true" -> TRUE
    [] tok = "passed:false" -> FALSE
    [] tok = "final_score:100" -> 100
    [] tok = "final_score:40" -> 40
    [] tok = "exit_code:9" -> 9

BenchmarkMember(n) ==
  CASE n = "a" -> "benchmark:a"
    [] n = "ab" -> "benchmark:ab"
    [] n = "b" -> "benchmark:b"

\* name = e: e is evaluated once and its value is what F is applied to
With(e, F(_)) == CHOOSE r \in {F(x) : x \in {e}} : TRUE

\* a result of evaluating code that may raise
Return(v) == [exc |-> "none", val |-> v]
Raise(e) == [exc |-> e, val |-> None]

\* text=True: data.replace("\r\n", "\n").replace("\r", "\n"); from[i] is
\* the translation of s from position i on
TranslateNewlines(s) ==
  LET from[i \in 1..(Len(s) + 2)] ==
        IF i > Len(s) THEN <<>>
        ELSE IF s[i] = "CR"
             THEN IF i < Len(s) /\ s[i + 1] = "LF"
                  THEN <<"LF">> \o from[i + 2]
                  ELSE <<"LF">> \o from[i + 1]
             ELSE <<s[i]>> \o from[i + 1]
  IN  from[1]

\* text=True: the captured bytes are decoded (UTF-8) and their newlines
\* translated; a byte that does not decode raises
Decode(bytes) ==
  IF \E k \in 1..Len(bytes) : bytes[k] = "FF"
  THEN Raise("UnicodeDecodeError")
  ELSE Return(TranslateNewlines(bytes))

IsWhitespace(tok) == tok \in {"CR", "LF"}

\* the members between the braces: member ("," member)*, or nothing
WellFormedMembers(ms) ==
  With(ms, LAMBDA m :
    \/ m = <<>>
    \/ /\ Len(m) % 2 = 1
       /\ \A k \in 1..Len(m) :
            IF k % 2 = 1 THEN m[k] \in MemberTokens ELSE m[k] = ",")

\* the dict of an object: a repeated key keeps its last value; upto[k] is
\* the dict of the first k tokens
MembersToDict(ms) ==
  With(ms, LAMBDA m :
    LET upto[k \in 0..Len(m)] ==
          IF k = 0 THEN EmptyDict
          ELSE IF m[k] = "," THEN upto[k - 1]
          ELSE Put(upto[k - 1], MemberKey(m[k]), MemberValue(m[k]))
    IN  upto[Len(m)])

\* json.loads(text): whitespace between tokens is insignificant; one value
\* is accepted, anything else raises JSONDecodeError
\* the JSON value of the tokens between the whitespace
ParseValue(toks) ==
  IF toks = <<"[", "]">> THEN Return([kind |-> "array"])
  ELSE IF /\ Len(toks) >= 2
          /\ toks[1] = "{"
          /\ toks[Len(toks)] = "}"
          /\ WellFormedMembers(SubSeq(toks, 2, Len(toks) - 1))
       THEN Return([kind |-> "object",
                    dict |-> MembersToDict(SubSeq(toks, 2, Len(toks) - 1))])
       ELSE Raise("JSONDecodeError")

\* json.loads(text): whitespace between tokens is insignificant; one value
\* is accepted, anything else raises JSONDecodeError
json_loads(text) ==
  With(SelectSeq(text, LAMBDA tok : ~IsWhitespace(tok)), ParseValue)

(***************************************************************************)
(* The verification subprocess                                             *)
(***************************************************************************)
\* timeout=300 of subprocess.run, in seconds
Timeout == 300

\* what a verification script can write to its standard output
Stdouts(n) ==
  { <<>>,
    <<"x", "CR", "LF", "x">>,
    <<"x", "FF">>,
    <<"[", "]", "LF">>,
    <<"{", BenchmarkMember(n), ",", "passed:true", ",", "final_score:100",
      "}", "CR", "LF">>,
    <<"{", BenchmarkMember(n), ",", "passed:false", ",", "final_score:40",
      "}">>,
    <<"{", "passed:true", ",", "exit_code:9", "}">> }

\* how it can exit: with status 0 and nothing on its standard error, or
\* with status 1 and a message there
Exits ==
  { [returncode |-> 0, err |-> <<>>],
    [returncode |-> 1, err |-> <<"e", "CR", "e">>] }

\* a child that was never started, for the fields of run
NoChild ==
  [launch |-> "none", hangs |-> FALSE, seconds |-> 0,
   out |-> <<>>, err |-> <<>>, returncode |-> 0]

\* The ways one execution of verify.sh can go: the script cannot be
\* launched, it never exits, it is still running after 301 seconds, or it
\* exits after one second having written out and err.
Behaviours(n) ==
  { [NoChild EXCEPT !.launch = "fail"] }
  \cup { [NoChild EXCEPT !.launch = "ok", !.hangs = TRUE] }
  \cup { [NoChild EXCEPT !.launch = "ok", !.seconds = 301] }
  \cup { [launch |-> "ok", hangs |-> FALSE, seconds |-> 1,
          out |-> o, err |-> e.err, returncode |-> e.returncode] :
            o \in Stdouts(n), e \in Exits }

\* the child is still running when the timeout expires
ExceedsTimeout(child) == child.hangs \/ child.seconds > Timeout

\* the child exited before the timeout
ChildExited(child) ==
  child.launch = "ok" /\ ~child.hangs /\ child.seconds < Timeout

\* subprocess.run(..., capture_output=True, text=True, timeout=300): the
\* CompletedProcess, or the exception it raises
subprocess_run(child) ==
  IF child.launch = "fail" THEN Raise("OSError")
  ELSE IF ExceedsTimeout(child) THEN Raise("TimeoutExpired")
  ELSE With(Decode(child.out), LAMBDA stdout :
       With(Decode(child.err), LAMBDA stderr :
         IF stdout.exc # "none" THEN Raise(stdout.exc)
         ELSE IF stderr.exc # "none" THEN Raise(stderr.exc)
         ELSE Return([stdout |-> stdout.val, stderr |-> stderr.val,
                      returncode |-> child.returncode])))

(***************************************************************************)
(* run_benchmark                                                           *)
(***************************************************************************)
\* the result returned when verification/verify.sh does not exist
MissingResult(benchmark_name, clock) ==
  [benchmark |-> benchmark_name, error |-> "verify.sh not found",
   timestamp |-> clock]

\* as if the stderr entry were filled from result.stdout
InvalidJsonOutput_StdoutTwice(benchmark_name, result, clock) ==
  [benchmark |-> benchmark_name, error |-> "Invalid JSON output",
   stdout |-> result.stdout, stderr |-> result.stdout,
   exit_code |-> result.returncode, timestamp |-> clock]

\* the dict built when stdout is no JSON
InvalidJsonOutput(benchmark_name, result, clock) ==
  [benchmark |-> benchmark_name, error |-> "Invalid JSON output",
   stdout |-> result.stdout, stderr |-> result.stderr,
   exit_code |-> result.returncode, timestamp |-> clock]

\* as if the result of a timeout did not name the benchmark
TimeoutResult_NoBenchmark(benchmark_name, clock) ==
  [error |-> "Execution timeout (300s)", timestamp |-> clock]

\* the result of the except subprocess.TimeoutExpired clause
TimeoutResult(benchmark_name, clock) ==
  [benchmark |-> benchmark_name, error |-> "Execution timeout (300s)",
   timestamp |-> clock]

\* str(e) of the exceptions the try block can raise
ExceptionMessage(exc) ==
  CASE exc = "OSError" -> "Execution failed: [Errno 8] Exec format error"
    [] exc = "UnicodeDecodeError" ->
         "Execution failed: 'utf-8' codec can't decode byte 0xff"
    [] exc = "TypeError" ->
         "Execution failed: object does not support item assignment"
    [] OTHER -> "Execution failed: "

\* the result of the except Exception clause
CrashResult(benchmark_name, exc, clock) ==
  [benchmark |-> benchmark_name, error |-> ExceptionMessage(exc),
   timestamp |-> clock]

\* as if the exit code were added with output.setdefault("exit_code", ...)
AddMetadata_SetDefault(output, result) ==
  IF output.kind # "object" THEN Raise("TypeError")
  ELSE Return([kind |-> "object",
               dict |-> Put(IF "exit_code" \in DOMAIN output.dict
                            THEN output.dict
                            ELSE Put(output.dict, "exit_code",
                                     result.returncode),
                            "execution_time_ms", None)])

\* as if a script that exits with a status other than 0 had not passed
AddMetadata_PassedFromExit(output, result) ==
  IF output.kind # "object" THEN Raise("TypeError")
  ELSE Return([kind |-> "object",
               dict |-> Put(Put(Put(output.dict, "exit_code",
                                    result.returncode),
                                "execution_time_ms", None),
                            "passed", result.returncode = 0)])

\* as if only the exit code were added
AddMetadata_NoTiming(output, result) ==
  IF output.kind # "object" THEN Raise("TypeError")
  ELSE Return([kind |-> "object",
               dict |-> Put(output.dict, "exit_code", result.returncode)])

\* output["exit_code"] = ...; output["execution_time_ms"] = None: item
\* assignment, which only a dict supports
AddMetadata(output, result) ==
  IF output.kind # "object" THEN Raise("TypeError")
  ELSE Return([kind |-> "object",
               dict |-> Put(Put(output.dict, "exit_code", result.returncode),
                            "execution_time_ms", None)])

\* the body of the try block: run the script, parse its stdout, add the
\* metadata
\* the lines after subprocess.run returned result
ParseAndTag(benchmark_name, result, clock) ==
  With(json_loads(result.stdout), LAMBDA parsed :
  With(IF parsed.exc = "JSONDecodeError"
       THEN [kind |-> "object",
             dict |-> InvalidJsonOutput(benchmark_name, result, clock)]
       ELSE parsed.val, LAMBDA output :
  With(AddMetadata(output, result), LAMBDA tagged :
    IF tagged.exc # "none" THEN tagged ELSE Return(tagged.val.dict))))

TryBody(benchmark_name, child, clock) ==
  With(subprocess_run(child), LAMBDA result :
    IF result.exc # "none" THEN result
    ELSE ParseAndTag(benchmark_name, result.val, clock))

\* as if the clause were "except OSError"
IsException_OSErrorOnly(exc) == exc = "OSError"

\* the exceptions that are instances of Exception
IsException(exc) ==
  exc \in {"OSError", "UnicodeDecodeError", "TypeError", "JSONDecodeError",
           "TimeoutExpired"}

\* as if the except Exception clause came first and caught the timeout
TryExcept_ExceptionFirst(benchmark_name, child, clock) ==
  With(TryBody(benchmark_name, child, clock), LAMBDA body :
    IF body.exc = "none"
    THEN [state |-> "COMPLETED", result |-> body.val]
    ELSE IF IsException(body.exc)
    THEN [state |-> "CRASHED",
          result |-> CrashResult(benchmark_name, body.exc, clock)]
    ELSE [state |-> "RAISED", result |-> EmptyDict])

\* the try statement with its two except clauses: the state the run ends
\* in and its result; state RAISED when no clause catches the exception
TryExcept(benchmark_name, child, clock) ==
  With(TryBody(benchmark_name, child, clock), LAMBDA body :
    IF body.exc = "none"
    THEN [state |-> "COMPLETED", result |-> body.val]
    ELSE IF body.exc = "TimeoutExpired"
    THEN [state |-> "TIMED_OUT",
          result |-> TimeoutResult(benchmark_name, clock)]
    ELSE IF IsException(body.exc)
    THEN [state |-> "CRASHED",
          result |-> CrashResult(benchmark_name, body.exc, clock)]
    ELSE [state |-> "RAISED", result |-> EmptyDict])

(***************************************************************************)
(* State                                                                   *)
(***************************************************************************)
VARIABLES
  benchmarks_dir,  \* what each name is under benchmarks/: "absent", a "dir"
                   \* without verification/verify.sh, or a dir with "script"
  args,            \* the parsed command line
  now,             \* the reading of datetime.utcnow()
  pc,              \* where main is: "main", "sweep", "single", "exit",
                   \* or "aborted" by an exception nobody caught
  benchmarks,      \* run_all_benchmarks: the list of list_benchmarks()
  idx,             \* run_all_benchmarks: the position of the for loop
  results,         \* run_all_benchmarks: the report being built
  run,             \* the run_benchmark call in progress: the benchmark,
                   \* the state of the run, the child, the result
  procs,           \* the verification subprocesses that are alive
  results_dir,     \* the files of the results directory, by file name
  status,          \* the exit status of main, <<>> while it runs
  calls,           \* history: calls of run_benchmark, per benchmark
  spawned,         \* history: subprocesses started, per benchmark
  returned,        \* history: the results run_benchmark returned, per
                   \* benchmark
  lifecycle,       \* history: the states the run of each benchmark went
                   \* through
  children,        \* history: the verification subprocesses of each
                   \* benchmark, in the order subprocess.run was entered
  saved,           \* history: the files the runner wrote, in order: the
                   \* path and the value given to json.dump
  gpc,             \* the leaderboard generator: "idle" before it is
                   \* used, "exit 0" or "exit 1" when its main has
                   \* returned, "called" after a direct call
  loaded,          \* generator: the list load_results returned
  warned,          \* generator: the files load_results skipped with a
                   \* warning
  grouped,         \* generator: the dict group_by_benchmark returned
  listing,         \* generator: the order in which glob listed the files
  stats,           \* the last direct call of calculate_statistics: its
                   \* argument and what it returned
  outputs,         \* history: the leaderboards rendered so far
  gargs,           \* generator: the arguments of its command line
  printed,         \* generator: what it printed on its standard output
  outfile,         \* generator: the contents of the file of --output, <<>>
                   \* while there is no such file
  capacity,        \* LRUCache: self.capacity, 0 while no cache was made
  lru_cache,       \* LRUCache: self._cache, the OrderedDict
  lru_op,          \* history: the last call of a method of the cache, what
                   \* it returned, the cache before it, the call before it
  recency,         \* history: the keys that were put or found by get, the
                   \* one used last at the end
  counter,         \* MetricsCounter: its five numbers
  counter_lock,    \* MetricsCounter: self.lock, 0 when free, else the
                   \* thread that holds it
  cthread,         \* the threads calling the counter: the statements left
                   \* of the call in progress, the local variable current
  made,            \* history: the calls of increment_simple and of
                   \* record_request made so far
  pool,            \* WorkerPool: its queue, results, worker states and
                   \* statistics
  pool_lock,       \* WorkerPool: self.lock, 0 when free, else the worker
                   \* that holds it
  wthread,         \* the executor threads of the pool: the statements left
                   \* to execute, the local variable of +=, the task held
  phist,           \* history: the tasks submitted, whether the executors
                   \* were started, how often each task was handed to a
                   \* worker and how often it was executed
  wfile,           \* a runner inside save_result: the path it opened, the
                   \* text json.dump produces, how much of it is in the
                   \* file, the file that was there before
  reader           \* load_results step by step: the index of the file in
                   \* the listing, whether it is open, what was read of it

\* the variables of the leaderboard generator
genvars ==
  <<gpc, loaded, warned, grouped, listing, stats, outputs, gargs, printed,
    outfile>>

\* the variables of the LRU cache of benchmark debugging-001
lruvars == <<capacity, lru_cache, lru_op, recency>>

\* the variables of the MetricsCounter of benchmark concurrency-001
countervars == <<counter, counter_lock, cthread, made>>

\* the variables of the WorkerPool of benchmark concurrency-001
poolvars == <<pool, pool_lock, wthread, phist>>

\* the variables of a result file written while load_results runs
racevars == <<wfile, reader>>

\* the variables of the code of the benchmarks, and of the steps inside
\* save_result and load_results
benchvars == <<lruvars, countervars, poolvars, racevars>>

vars ==
  <<benchmarks_dir, args, now, pc, benchmarks, idx, results, run, procs,
    results_dir, status, calls, spawned, returned, lifecycle, children,
    saved, genvars, benchvars>>

\* no run_benchmark call in progress
NoRun == [name |-> None, state |-> "NONE", child |-> NoChild,
          result |-> EmptyDict]

\* the states in which run_benchmark returns
TerminalStates == {"COMPLETED", "TIMED_OUT", "CRASHED", "SCRIPT_MISSING"}

\* as if the benchmark directory were looked for, not the script in it
ScriptExists_DirOnly(n) == n \in AllNames /\ benchmarks_dir[n] # "absent"

\* (path / "verification" / "verify.sh").exists()
ScriptExists(n) == n \in AllNames /\ benchmarks_dir[n] = "script"

RECURSIVE iterdir_order(_)
\* the names of the set S in an order iterdir() may give: descending
iterdir_order(S) ==
  IF S = {} THEN <<>>
  ELSE LET least == CHOOSE m \in S : \A n \in S \ {m} : StrLess(m, n)
       IN  iterdir_order(S \ {least}) \o <<least>>

\* as if list_benchmarks returned the names without sorting them
list_benchmarks_Unsorted == iterdir_order({n \in AllNames : ScriptExists(n)})

\* list_benchmarks(): the directories with a verify.sh, sorted
list_benchmarks == sorted({n \in AllNames : ScriptExists(n)})

\* the command lines: --list, --all or a benchmark name, --list with
\* either, or none of them
ArgsSet ==
  { a \in [list : BOOLEAN, all : BOOLEAN, benchmark : AllNames \cup {None}] :
      a.all => a.benchmark = None }

\* calculate_statistics has not been called
NoStatistics == [called |-> FALSE, results |-> <<>>, returned |-> EmptyDict]

\* an OrderedDict without items: the keys in order, and their values
EmptyOrderedDict == [keys |-> <<>>, vals |-> EmptyDict]

\* no method was called
NoCall ==
  [op |-> "none", key |-> None, value |-> 0, returned |-> <<>>,
   raised |-> "none", before |-> EmptyOrderedDict, victim |-> None,
   prev |-> [op |-> "none", key |-> None, value |-> 0]]

\* no LRUCache was made
LruIdle ==
  /\ capacity = 0
  /\ lru_cache = EmptyOrderedDict
  /\ lru_op = NoCall
  /\ recency = <<>>

\* the threads that call the counter
CounterThreads == 1..MaxThreads

\* MetricsCounter(), and the threads before their first call
CounterIdle ==
  /\ counter = [total_requests |-> 0, successful_requests |-> 0,
                failed_requests |-> 0, total_processing_time |-> 0,
                request_count |-> 0]
  /\ counter_lock = 0
  /\ cthread = [t \in CounterThreads |->
                  [program |-> <<>>, current |-> 0]]
  /\ made = [increment_simple |-> 0, record_request |-> 0]

\* the executor threads, one for each worker_id; worker_id 0 of the
\* source is worker 1 here
PoolWorkers == 1..MaxWorkers

\* the tasks that can be submitted, numbered in the order of submission
PoolTasks == 1..MaxTasks

\* WorkerPool(num_workers), before a task was submitted or an executor
\* thread started
PoolIdle ==
  /\ pool = [task_queue |-> <<>>, results |-> <<>>,
             worker_states |-> [w \in PoolWorkers |-> "idle"],
             completed_tasks |-> 0, failed_tasks |-> 0,
             active_workers |-> 0]
  /\ pool_lock = 0
  /\ wthread = [w \in PoolWorkers |->
                  [program |-> <<>>, current |-> 0, task |-> 0]]
  /\ phist = [submitted |-> 0, started |-> FALSE,
              handed |-> [k \in PoolTasks |-> 0],
              executed |-> [k \in PoolTasks |-> 0]]

\* no runner is inside save_result, and load_results is not running
NotWriting ==
  [pc |-> "idle", path |-> None, result |-> EmptyDict, text |-> <<>>,
   flushed |-> 0, before |-> <<>>, raced |-> FALSE]

NotReading == [i |-> 0, open |-> FALSE, buf |-> <<>>]

RaceIdle ==
  /\ wfile = NotWriting
  /\ reader = NotReading

\* the arguments before the generator is started
NoArguments == [results_dir |-> None, format |-> None, output |-> None]

\* the generator has not been started
GeneratorIdle ==
  /\ gpc = "idle"
  /\ loaded = <<>>
  /\ warned = {}
  /\ grouped = EmptyGroups
  /\ listing = <<>>
  /\ stats = NoStatistics
  /\ outputs = <<>>
  /\ gargs = NoArguments
  /\ printed = <<>>
  /\ outfile = <<>>

Init ==
  /\ benchmarks_dir \in [AllNames -> {"absent", "dir", "script"}]
  /\ Cardinality({n \in AllNames : benchmarks_dir[n] # "absent"}) <= MaxBench
  /\ args \in ArgsSet
  /\ now = 0
  /\ pc = "main"
  /\ benchmarks = <<>>
  /\ idx = 1
  /\ results = EmptyDict
  /\ run = NoRun
  /\ procs = {}
  /\ results_dir = EmptyDict
  /\ status = <<>>
  /\ calls = [n \in AllNames |-> 0]
  /\ spawned = [n \in AllNames |-> 0]
  /\ returned = [n \in AllNames |-> <<>>]
  /\ lifecycle = [n \in AllNames |-> <<>>]
  /\ children = [n \in AllNames |-> <<>>]
  /\ saved = <<>>
  /\ GeneratorIdle
  /\ LruIdle
  /\ CounterIdle
  /\ PoolIdle
  /\ RaceIdle

(***************************************************************************)
(* Steps of run_benchmark                                                  *)
(***************************************************************************)
\* the call run_benchmark(n): the run is pending
CallRunBenchmark(n) ==
  /\ run' = [name |-> n, state |-> "PENDING", child |-> NoChild,
             result |-> EmptyDict]
  /\ calls' = [c \in AllNames |-> IF c = n THEN calls[c] + 1 ELSE calls[c]]
  /\ lifecycle' = [c \in AllNames |->
                     IF c = n THEN Append(lifecycle[c], "PENDING")
                     ELSE lifecycle[c]]

\* as if the child were neither waited for nor killed
Reap_LeftRunning(alive, n) == alive

\* communicate() after the child exited, or kill() and wait() after the
\* timeout: the child is gone when subprocess.run returns or raises
Reap(alive, n) == alive \ {n}

\* if not verify_script.exists(): return the error result
ScriptMissing ==
  /\ run.state = "PENDING"
  /\ ~ScriptExists(run.name)
  /\ run' = [run EXCEPT !.state = "SCRIPT_MISSING",
                        !.result = MissingResult(run.name, now)]
  /\ returned' = [returned EXCEPT ![run.name] = Append(@, run'.result)]
  /\ lifecycle' = [lifecycle EXCEPT ![run.name] = Append(@, "SCRIPT_MISSING")]
  /\ UNCHANGED <<benchmarks_dir, args, now, pc, benchmarks, idx, results,
                 procs, results_dir, status, calls, spawned>>
  /\ UNCHANGED <<children, saved, genvars, benchvars>>

\* as if subprocess.run were entered without looking for the script
Dispatch_Unchecked ==
  /\ run.state = "PENDING"
  /\ \E child \in Behaviours(run.name) :
       /\ run' = [run EXCEPT !.state = "DISPATCHED", !.child = child]
       /\ procs' = IF child.launch = "ok" THEN procs \cup {run.name}
                   ELSE procs
       /\ spawned' = IF child.launch = "ok"
                     THEN [spawned EXCEPT ![run.name] = @ + 1]
                     ELSE spawned
  /\ lifecycle' = [lifecycle EXCEPT ![run.name] = Append(@, "DISPATCHED")]
  /\ UNCHANGED <<benchmarks_dir, args, now, pc, benchmarks, idx, results,
                 results_dir, status, calls, returned>>
  /\ children' = [children EXCEPT ![run.name] = Append(@, run'.child)]
  /\ UNCHANGED <<saved, genvars, benchvars>>

\* the script exists: subprocess.run is entered and starts the child, or
\* fails to
Dispatch ==
  /\ run.state = "PENDING"
  /\ ScriptExists(run.name)
  /\ \E child \in Behaviours(run.name) :
       /\ run' = [run EXCEPT !.state = "DISPATCHED", !.child = child]
       /\ procs' = IF child.launch = "ok" THEN procs \cup {run.name}
                   ELSE procs
       /\ spawned' = IF child.launch = "ok"
                     THEN [spawned EXCEPT ![run.name] = @ + 1]
                     ELSE spawned
  /\ lifecycle' = [lifecycle EXCEPT ![run.name] = Append(@, "DISPATCHED")]
  /\ UNCHANGED <<benchmarks_dir, args, now, pc, benchmarks, idx, results,
                 results_dir, status, calls, returned>>
  /\ children' = [children EXCEPT ![run.name] = Append(@, run'.child)]
  /\ UNCHANGED <<saved, genvars, benchvars>>

\* as if subprocess.run were called without a timeout: the wait ends only
\* when the child exits
WaitEnds_NoTimeout(child) == ~child.hangs

\* communicate(timeout=300) comes to an end: the child exited, or the
\* timeout expired
WaitEnds(child) == ~child.hangs \/ ExceedsTimeout(child)

\* subprocess.run returns or raises, and the rest of the try statement
\* runs up to the return
SubprocessRunReturns ==
  /\ run.state = "DISPATCHED"
  /\ run.child.launch = "ok" => WaitEnds(run.child)
  /\ \E end \in {TryExcept(run.name, run.child, now)} :
         /\ run' = [run EXCEPT !.state = end.state, !.result = end.result]
         /\ returned' = IF end.state \in TerminalStates
                        THEN [returned EXCEPT ![run.name] =
                                Append(@, end.result)]
                        ELSE returned
         /\ lifecycle' = [lifecycle EXCEPT ![run.name] = Append(@, end.state)]
  /\ procs' = Reap(procs, run.name)
  /\ UNCHANGED <<benchmarks_dir, args, now, pc, benchmarks, idx, results,
                 results_dir, status, calls, spawned>>
  /\ UNCHANGED <<children, saved, genvars, benchvars>>

(***************************************************************************)
(* save_result, run_all_benchmarks and main                                *)
(***************************************************************************)
\* as if a result passed whenever it carries no error
Passed_NoError(r) == "error" \notin DOMAIN r

\* r.get("passed", False) as a condition
Passed(r) == Get(r, "passed", FALSE) = TRUE

\* The clock counts half seconds. strftime("%Y%m%d_%H%M%S") prints the
\* reading down to the second.
strftime(clock) == clock \div 2

\* json.dump of one value of a result, by its key: True and False are
\* written as true and false, None as null, numbers and strings as
\* themselves
EncodeMember(k, v) ==
  CASE k = "passed" -> IF v = TRUE THEN "true" ELSE "false"
    [] k = "execution_time_ms" -> IF v = None THEN "null" ELSE v
    [] OTHER -> v

\* json.load of one value of an object, by its key
DecodeMember(k, j) ==
  CASE k = "passed" -> j = "true"
    [] k = "execution_time_ms" -> IF j = "null" THEN None ELSE j
    [] OTHER -> j

\* the JSON object json.dump writes for a result
EncodeResult(result) ==
  [k \in DOMAIN result |-> EncodeMember(k, result[k])]

\* the dict json.load makes of a JSON object
DecodeResult(object) ==
  [k \in DOMAIN object |-> DecodeMember(k, object[k])]

\* A value that is no dict is held with its kind: a list as
\* [kind |-> "array", items |-> ...], a str as [kind |-> "string",
\* chars |-> ...], a number, and None, which JSON writes as null. A dict is
\* held as the function from its keys to their values; the documents have
\* no dict as the value of the key results.
IsDict(v) == "kind" \notin DOMAIN v

List(items) == [kind |-> "array", items |-> items]
Str(chars) == [kind |-> "string", chars |-> chars]
Number(n) == [kind |-> "number", n |-> n]
Null == [kind |-> "null"]

\* json.dump(result, f): the document of a result; in the report of a
\* sweep the results list is a list of such documents
json_dump(value) ==
  IF "results" \in DOMAIN value
  THEN [k \in DOMAIN value |->
          IF k = "results"
          THEN List([i \in 1..Len(value.results) |->
                       EncodeResult(value.results[i])])
          ELSE value[k]]
  ELSE EncodeResult(value)

\* a file of the results directory that holds the document doc
JsonFile(doc) == [readable |-> TRUE, valid |-> TRUE, doc |-> doc]

\* json.load of an element of a list
DecodeItem(j) == IF IsDict(j) THEN DecodeResult(j) ELSE j

\* json.load of a value that is no dict
DecodeList(j) ==
  IF j.kind = "array"
  THEN List([i \in 1..Len(j.items) |-> DecodeItem(j.items[i])])
  ELSE j

\* open(filepath) and json.load(f): the value of the document, or the
\* exception when the file cannot be read or holds no JSON
json_load(file) ==
  IF ~file.readable THEN Raise("OSError")
  ELSE IF ~file.valid THEN Raise("JSONDecodeError")
  ELSE IF ~IsDict(file.doc) THEN Return(DecodeList(file.doc))
  ELSE IF "results" \in DOMAIN file.doc
  THEN Return([k \in DOMAIN file.doc |->
                 IF k = "results" THEN DecodeList(file.doc.results)
                 ELSE file.doc[k]])
  ELSE Return(DecodeResult(file.doc))

\* the path save_result writes to: {benchmark}_{timestamp}.json
ResultPath(result, clock) ==
  [stem |-> Get(result, "benchmark", "unknown"), ts |-> strftime(clock)]

\* the path main writes the report of a sweep to:
\* all_benchmarks_{timestamp}.json
ReportPath(clock) == [stem |-> "all_benchmarks", ts |-> strftime(clock)]

\* save_result(result): the file is opened for writing, which empties a
\* file that is there, and the result is dumped into it
save_result(dir, result, clock) ==
  Put(dir, ResultPath(result, clock), JsonFile(json_dump(result)))

\* sum(1 for r in results if r.get("passed", False))
RECURSIVE CountPassed(_)
CountPassed(rs) ==
  IF rs = <<>> THEN 0
  ELSE (IF Passed(Head(rs)) THEN 1 ELSE 0) + CountPassed(Tail(rs))

\* datetime.utcnow() between two steps
Tick ==
  /\ pc \notin {"exit", "aborted"}
  /\ now < MaxClock
  /\ now' = now + 1
  /\ UNCHANGED <<benchmarks_dir, args, pc, benchmarks, idx, results, run,
                 procs, results_dir, status, calls, spawned, returned, lifecycle>>
  /\ UNCHANGED <<children, saved, genvars, benchvars>>

\* main --list
MainList ==
  /\ pc = "main"
  /\ args.list
  /\ pc' = "exit"
  /\ status' = <<0>>
  /\ UNCHANGED <<benchmarks_dir, args, now, benchmarks, idx, results, run,
                 procs, results_dir, calls, spawned, returned, lifecycle>>
  /\ UNCHANGED <<children, saved, genvars, benchvars>>

\* main --all: run_all_benchmarks lists the benchmarks and starts the
\* report
MainAll ==
  /\ pc = "main"
  /\ ~args.list
  /\ args.all
  /\ benchmarks' = list_benchmarks
  /\ results' = [run_timestamp |-> now,
                 total_benchmarks |-> Len(list_benchmarks),
                 results |-> <<>>]
  /\ idx' = 1
  /\ pc' = "sweep"
  /\ UNCHANGED <<benchmarks_dir, args, now, run, procs, results_dir, status,
                 calls, spawned, returned, lifecycle>>
  /\ UNCHANGED <<children, saved, genvars, benchvars>>

\* for benchmark in benchmarks: result = self.run_benchmark(benchmark)
SweepCall ==
  /\ pc = "sweep"
  /\ run.state = "NONE"
  /\ idx <= Len(benchmarks)
  /\ CallRunBenchmark(benchmarks[idx])
  /\ UNCHANGED <<benchmarks_dir, args, now, pc, benchmarks, idx, results,
                 procs, results_dir, status, spawned, returned>>
  /\ UNCHANGED <<children, saved, genvars, benchvars>>

\* as if the loop stopped at the first result that carries an error
SweepCollect_StopOnError ==
  /\ pc = "sweep"
  /\ run.state \in TerminalStates \cup {"RAISED"}
  /\ IF run.state = "RAISED"
     THEN /\ pc' = "aborted"
          /\ status' = <<1>>
          /\ UNCHANGED <<results, idx>>
     ELSE /\ results' = [results EXCEPT !.results = Append(@, run.result)]
          /\ idx' = IF "error" \in DOMAIN run.result
                    THEN Len(benchmarks) + 1 ELSE idx + 1
          /\ UNCHANGED <<pc, status>>
  /\ run' = NoRun
  /\ UNCHANGED <<benchmarks_dir, args, now, benchmarks, procs, results_dir,
                 calls, spawned, returned, lifecycle>>
  /\ UNCHANGED <<children, saved, genvars, benchvars>>

\* run_benchmark is over: the result is appended and the loop goes on, or
\* the exception leaves run_all_benchmarks and main
SweepCollect ==
  /\ pc = "sweep"
  /\ run.state \in TerminalStates \cup {"RAISED"}
  /\ IF run.state = "RAISED"
     THEN /\ pc' = "aborted"
          /\ status' = <<1>>
          /\ UNCHANGED <<results, idx>>
     ELSE /\ results' = [results EXCEPT !.results = Append(@, run.result)]
          /\ idx' = idx + 1
          /\ UNCHANGED <<pc, status>>
  /\ run' = NoRun
  /\ UNCHANGED <<benchmarks_dir, args, now, benchmarks, procs, results_dir,
                 calls, spawned, returned, lifecycle>>
  /\ UNCHANGED <<children, saved, genvars, benchvars>>

\* the loop is over: run_all_benchmarks returns the report, main saves it
\* and exits
SweepDone ==
  /\ pc = "sweep"
  /\ run.state = "NONE"
  /\ idx > Len(benchmarks)
  /\ results_dir' = Put(results_dir, ReportPath(now),
                        JsonFile(json_dump(results)))
  /\ status' = <<IF CountPassed(results.results) = results.total_benchmarks
                 THEN 0 ELSE 1>>
  /\ pc' = "exit"
  /\ UNCHANGED <<benchmarks_dir, args, now, benchmarks, idx, results, run,
                 procs, calls, spawned, returned, lifecycle>>
  /\ saved' = Append(saved, [path |-> ReportPath(now),
                             wrote |-> results.results])
  /\ UNCHANGED <<children, genvars, benchvars>>

\* main with a benchmark name: run_benchmark is called
MainSingle ==
  /\ pc = "main"
  /\ ~args.list
  /\ ~args.all
  /\ args.benchmark # None
  /\ CallRunBenchmark(args.benchmark)
  /\ pc' = "single"
  /\ UNCHANGED <<benchmarks_dir, args, now, benchmarks, idx, results, procs,
                 results_dir, status, spawned, returned>>
  /\ UNCHANGED <<children, saved, genvars, benchvars>>

\* run_benchmark is over: main saves the result and exits, or the
\* exception leaves main
SingleCollect ==
  /\ pc = "single"
  /\ run.state \in TerminalStates \cup {"RAISED"}
  /\ IF run.state = "RAISED"
     THEN /\ pc' = "aborted"
          /\ status' = <<1>>
          /\ UNCHANGED results_dir
     ELSE /\ results_dir' = save_result(results_dir, run.result, now)
          /\ status' = <<IF Passed(run.result) THEN 0 ELSE 1>>
          /\ pc' = "exit"
  /\ run' = NoRun
  /\ UNCHANGED <<benchmarks_dir, args, now, benchmarks, idx, results, procs,
                 calls, spawned, returned, lifecycle>>
  /\ saved' = IF run.state = "RAISED" THEN saved
            ELSE Append(saved, [path |-> ResultPath(run.result, now),
                                wrote |-> <<run.result>>])
  /\ UNCHANGED <<children, genvars, benchvars>>

\* main without --list, --all or a benchmark name: the help is printed
MainUsage ==
  /\ pc = "main"
  /\ ~args.list
  /\ ~args.all
  /\ args.benchmark = None
  /\ pc' = "exit"
  /\ status' = <<1>>
  /\ UNCHANGED <<benchmarks_dir, args, now, benchmarks, idx, results, run,
                 procs, results_dir, calls, spawned, returned, lifecycle>>
  /\ UNCHANGED <<children, saved, genvars, benchvars>>

Next ==
  \/ Tick
  \/ MainList
  \/ MainAll
  \/ SweepCall
  \/ SweepCollect
  \/ SweepDone
  \/ MainSingle
  \/ SingleCollect
  \/ MainUsage
  \/ ScriptMissing
  \/ Dispatch
  \/ SubprocessRunReturns

Spec == Init /\ [][Next]_vars

\* the steps of the program; the clock is not one of them
Step ==
  \/ MainList
  \/ MainAll
  \/ SweepCall
  \/ SweepCollect
  \/ SweepDone
  \/ MainSingle
  \/ SingleCollect
  \/ MainUsage
  \/ ScriptMissing
  \/ Dispatch
  \/ SubprocessRunReturns

\* The program is one thread that keeps running: a step that stays
\* possible is taken.
FairSpec == Spec /\ WF_vars(Step)

(***************************************************************************)
(* The leaderboard generator                                               *)
(***************************************************************************)
\* the characters of "results"
ResultsChars == <<"r", "e", "s", "u", "l", "t", "s">>

\* "results" in data: a key of a dict, an element of a list, a part of a
\* str; any other value raises TypeError
Contains(data) ==
  IF IsDict(data) THEN Return("results" \in DOMAIN data)
  ELSE IF data.kind = "array"
  THEN Return(\E i \in 1..Len(data.items) :
                /\ ~IsDict(data.items[i])
                /\ data.items[i].kind = "string"
                /\ data.items[i].chars = ResultsChars)
  ELSE IF data.kind = "string"
  THEN Return(\E i \in 1..Len(data.chars) :
                /\ i + Len(ResultsChars) - 1 <= Len(data.chars)
                /\ SubSeq(data.chars, i, i + Len(ResultsChars) - 1)
                     = ResultsChars)
  ELSE Raise("TypeError")

\* data["results"]: the value of the key of a dict; a list and a str take
\* no str as an index
GetItem(data) ==
  IF IsDict(data) THEN Return(data.results) ELSE Raise("TypeError")

\* what results.extend(value) appends: the elements of a list, the
\* characters of a str; a number and None cannot be iterated
Iterate(value) ==
  IF value.kind = "array" THEN Return(value.items)
  ELSE IF value.kind = "string"
  THEN Return([i \in 1..Len(value.chars) |-> Str(<<value.chars[i]>>)])
  ELSE Raise("TypeError")

\* the body of the try statement for one file, results being the list so
\* far: the list afterwards, or the exception raised
LoadFile(results_so_far, file) ==
  With(json_load(file), LAMBDA data :
    IF data.exc # "none" THEN data
    ELSE With(Contains(data.val), LAMBDA found :
      IF found.exc # "none" THEN found
      ELSE IF ~found.val THEN Return(Append(results_so_far, data.val))
      ELSE With(GetItem(data.val), LAMBDA value :
        IF value.exc # "none" THEN value
        ELSE With(Iterate(value.val), LAMBDA elements :
          IF elements.exc # "none" THEN elements
          ELSE Return(results_so_far \o elements.val)))))

\* as if a value with a results key were appended like any other
load_results_NoExtend(dir, files) ==
  LET upto[k \in 0..Len(files)] ==
        IF k = 0 THEN [results |-> <<>>, warned |-> {}]
        ELSE With(json_load(dir[files[k]]), LAMBDA data :
               IF data.exc # "none"
               THEN [upto[k - 1] EXCEPT !.warned = @ \cup {files[k]}]
               ELSE [upto[k - 1] EXCEPT !.results = Append(@, data.val)])
  IN  upto[Len(files)]

\* as if the loop ended at the first file that cannot be loaded
load_results_StopAtBadFile(dir, files) ==
  LET upto[k \in 0..Len(files)] ==
        IF k = 0 THEN [results |-> <<>>, warned |-> {}]
        ELSE IF upto[k - 1].warned # {} THEN upto[k - 1]
        ELSE With(LoadFile(upto[k - 1].results, dir[files[k]]),
                  LAMBDA body :
               IF body.exc # "none"
               THEN [upto[k - 1] EXCEPT !.warned = @ \cup {files[k]}]
               ELSE [upto[k - 1] EXCEPT !.results = body.val])
  IN  upto[Len(files)]

\* load_results(): the files are visited in the order glob("*.json") lists
\* them; a file whose loading raises an Exception is reported and skipped,
\* a value with a results key extends the list, any other value is
\* appended. upto[k] is the list, and the files skipped, after the first k
\* files.
load_results(dir, files) ==
  LET upto[k \in 0..Len(files)] ==
        IF k = 0 THEN [results |-> <<>>, warned |-> {}]
        ELSE With(LoadFile(upto[k - 1].results, dir[files[k]]),
                  LAMBDA body :
               IF body.exc # "none"
               THEN [upto[k - 1] EXCEPT !.warned = @ \cup {files[k]}]
               ELSE [upto[k - 1] EXCEPT !.results = body.val])
  IN  upto[Len(files)]

\* as if the result were assigned to the key: grouped[benchmark] = [result]
AppendToGroup_Assign(g, benchmark, result) ==
  [keys |-> IF benchmark \in DOMAIN g.lists THEN g.keys
            ELSE Append(g.keys, benchmark),
   lists |-> Put(g.lists, benchmark, <<result>>)]

\* grouped[benchmark].append(result) on the defaultdict(list)
AppendToGroup(g, benchmark, result) ==
  [keys |-> IF benchmark \in DOMAIN g.lists THEN g.keys
            ELSE Append(g.keys, benchmark),
   lists |-> Put(g.lists, benchmark,
                 Append(Get(g.lists, benchmark, <<>>), result))]

\* group_by_benchmark(results): each result is appended to the list of its
\* benchmark; upto[k] is the dict after the first k results. A result that
\* is no dict has no get: the call raises AttributeError.
group_by_benchmark(rs) ==
  LET upto[k \in 0..Len(rs)] ==
        IF k = 0 THEN EmptyGroups
        ELSE IF "exc" \in DOMAIN upto[k - 1] THEN upto[k - 1]
        ELSE IF ~IsDict(rs[k]) THEN Raise("AttributeError")
        ELSE AppendToGroup(upto[k - 1], Get(rs[k], "benchmark", "unknown"),
                           rs[k])
  IN  upto[Len(rs)]

\* a / b, kept exact
Frac(a, b) == [num |-> a, den |-> b]

\* sum(scores); upto[k] is the sum of the first k
sum(scores) ==
  LET upto[k \in 0..Len(scores)] ==
        IF k = 0 THEN 0 ELSE upto[k - 1] + scores[k]
  IN  upto[Len(scores)]

\* as if the minimum were the first score
min_First(scores) == scores[1]

\* min(scores)
min(scores) ==
  CHOOSE m \in {scores[k] : k \in 1..Len(scores)} :
    \A k \in 1..Len(scores) : m <= scores[k]

\* max(scores)
max(scores) ==
  CHOOSE m \in {scores[k] : k \in 1..Len(scores)} :
    \A k \in 1..Len(scores) : m >= scores[k]

\* as if the results without a final_score were left out of the scores
calculate_statistics_SkipMissing(rs) ==
  IF rs = <<>>
  THEN [count |-> 0, avg_score |-> Frac(0, 1), min_score |-> 0,
        max_score |-> 0, pass_rate |-> Frac(0, 1)]
  ELSE With(SelectSeq(rs, LAMBDA r : "final_score" \in DOMAIN r),
            LAMBDA scored :
         With([k \in 1..Len(scored) |-> scored[k].final_score],
              LAMBDA scores :
           [count |-> Len(rs),
            avg_score |-> IF scores = <<>> THEN Frac(0, 1)
                          ELSE Frac(sum(scores), Len(scores)),
            min_score |-> IF scores = <<>> THEN 0 ELSE min(scores),
            max_score |-> IF scores = <<>> THEN 0 ELSE max(scores),
            pass_rate |->
              Frac(sum([k \in 1..Len(rs) |->
                          IF Passed(rs[k]) THEN 1 ELSE 0]) * 100,
                   Len(rs))]))

\* calculate_statistics(results); the two quotients are kept as fractions
calculate_statistics(rs) ==
  IF rs = <<>>
  THEN [count |-> 0, avg_score |-> Frac(0, 1), min_score |-> 0,
        max_score |-> 0, pass_rate |-> Frac(0, 1)]
  ELSE With([k \in 1..Len(rs) |-> Get(rs[k], "final_score", 0)],
            LAMBDA scores :
         [count |-> Len(rs),
          avg_score |-> Frac(sum(scores), Len(scores)),
          min_score |-> min(scores),
          max_score |-> max(scores),
          pass_rate |->
            Frac(sum([k \in 1..Len(rs) |-> IF Passed(rs[k]) THEN 1 ELSE 0])
                   * 100,
                 Len(rs))])

\* f"{x:.1f}": x in tenths, rounded to the nearest, a tie to the even one
fmt1(x) ==
  LET q == (x.num * 10) \div x.den
      r == (x.num * 10) % x.den
  IN  IF 2 * r > x.den \/ (2 * r = x.den /\ q % 2 = 1) THEN q + 1 ELSE q

\* the numbers of one row of statistics as the templates print them
FormatStatistics(st) ==
  [count |-> st.count, avg_score |-> fmt1(st.avg_score),
   pass_rate |-> fmt1(st.pass_rate), min_score |-> st.min_score,
   max_score |-> st.max_score]

\* the line "**Run i** (timestamp): PASS/FAIL - score/100" of a result
RunLine(i, result) ==
  [run |-> i,
   timestamp |-> IF "timestamp" \in DOMAIN result
                 THEN ToString(result.timestamp) ELSE "unknown",
   passed |-> IF Passed(result) THEN "PASS" ELSE "FAIL",
   score |-> Get(result, "final_score", 0)]

\* [r for results in grouped_results.values() for r in results];
\* flat[k] is the list for the first k groups
values(g) ==
  LET flat[k \in 0..Len(g.keys)] ==
        IF k = 0 THEN <<>> ELSE flat[k - 1] \o g.lists[g.keys[k]]
  IN  flat[Len(g.keys)]

\* as if the benchmarks were taken in the order of the dict, unsorted
generate_markdown_leaderboard_Unsorted(g, clock) ==
  With(g.keys, LAMBDA names :
    [generated |-> clock,
     overall |-> FormatStatistics(calculate_statistics(values(g))),
     table |-> [i \in 1..Len(names) |->
                  [benchmark |-> names[i],
                   stats |-> FormatStatistics(calculate_statistics(
                                                g.lists[names[i]]))]],
     detailed |-> [i \in 1..Len(names) |->
                     [benchmark |-> names[i],
                      runs |-> [j \in 1..Len(g.lists[names[i]]) |->
                                  RunLine(j, g.lists[names[i]][j])]]]])

\* generate_markdown_leaderboard(grouped_results): the timestamp, the
\* overall statistics, one table row per benchmark in sorted order, and
\* the runs of each benchmark in the same order
generate_markdown_leaderboard(g, clock) ==
  With(sorted(DOMAIN g.lists), LAMBDA names :
    [generated |-> clock,
     overall |-> FormatStatistics(calculate_statistics(values(g))),
     table |-> [i \in 1..Len(names) |->
                  [benchmark |-> names[i],
                   stats |-> FormatStatistics(calculate_statistics(
                                                g.lists[names[i]]))]],
     detailed |-> [i \in 1..Len(names) |->
                     [benchmark |-> names[i],
                      runs |-> [j \in 1..Len(g.lists[names[i]]) |->
                                  RunLine(j, g.lists[names[i]][j])]]]])

\* as if the overall statistics were those of the first group
generate_json_leaderboard_FirstGroup(g, clock) ==
  [generated_at |-> clock,
   overall_statistics |-> calculate_statistics(g.lists[g.keys[1]]),
   benchmarks |->
     [keys |-> sorted(DOMAIN g.lists),
      dict |-> [name \in DOMAIN g.lists |->
                  [statistics |-> calculate_statistics(g.lists[name]),
                   runs |-> g.lists[name]]]]]

\* generate_json_leaderboard(grouped_results): the timestamp, the overall
\* statistics, and for each benchmark, in sorted order, its statistics and
\* its runs
generate_json_leaderboard(g, clock) ==
  [generated_at |-> clock,
   overall_statistics |-> calculate_statistics(values(g)),
   benchmarks |->
     [keys |-> sorted(DOMAIN g.lists),
      dict |-> [name \in DOMAIN g.lists |->
                  [statistics |-> calculate_statistics(g.lists[name]),
                   runs |-> g.lists[name]]]]]

\* json.dumps(leaderboard, indent=2): the runs are written as json.dump
\* writes a result, the quotients as decimal numbers, which the fractions
\* stand for
json_dumps(leaderboard) ==
  [leaderboard EXCEPT
     !.benchmarks.dict =
       [name \in DOMAIN @ |->
          [@[name] EXCEPT
             !.runs = List([i \in 1..Len(@) |-> EncodeResult(@[i])])]]]

(***************************************************************************)
(* Runner and generator on one results directory                           *)
(***************************************************************************)
\* run_benchmark(benchmark_name) from call to return, the script behaving
\* as child does
run_benchmark(benchmark_name, child, clock) ==
  IF ~ScriptExists(benchmark_name)
  THEN MissingResult(benchmark_name, clock)
  ELSE TryExcept(benchmark_name, child, clock).result

\* run_all_benchmarks() from call to return, the script of each benchmark
\* behaving as kids says
run_all_benchmarks(kids, clock) ==
  [run_timestamp |-> clock,
   total_benchmarks |-> Len(list_benchmarks),
   results |-> [i \in 1..Len(list_benchmarks) |->
                  run_benchmark(list_benchmarks[i], kids[list_benchmarks[i]],
                                clock)]]

\* verification scripts that exit with 0 after printing a JSON object
\* with a score
Scripts(n) ==
  { c \in Behaviours(n) :
      /\ ChildExited(c)
      /\ c.returncode = 0
      /\ "final_score" \in DOMAIN TryExcept(n, c, 0).result }

\* the orders in which glob can list the files of the set S
Listings(S) ==
  { order \in [1..Cardinality(S) -> S] :
      \A i, j \in 1..Cardinality(S) : order[i] = order[j] => i = j }

\* a file somebody else put into the directory
ForeignPath == [stem |-> "notes", ts |-> 0]

\* what it can be: a file that cannot be opened, one that holds no JSON,
\* or a result written by hand, without a benchmark field
ForeignFiles ==
  { [readable |-> FALSE, valid |-> FALSE, doc |-> EmptyDict],
    [readable |-> TRUE, valid |-> FALSE, doc |-> EmptyDict],
    JsonFile([passed |-> "true"]) }

\* a file of valid JSON that is no result and no report
OddPath == [stem |-> "odd", ts |-> 0]

\* what it can hold: [1, 2], [], ["results"], "abc", "results", 7,
\* {"results": 5}, {"results": null}, {"results": "ab"}, {"results": [1]}
OddFiles ==
  { JsonFile(doc) :
      doc \in { List(<<Number(1), Number(2)>>),
                List(<<>>),
                List(<<Str(ResultsChars)>>),
                Str(<<"a", "b", "c">>),
                Str(ResultsChars),
                Number(7),
                [results |-> Number(5)],
                [results |-> Null],
                [results |-> Str(<<"a", "b">>)],
                [results |-> List(<<Number(1)>>)] } }

\* the number of files put into the directory so far
Written ==
  Len(saved) + (IF ForeignPath \in DOMAIN results_dir THEN 1 ELSE 0)
             + (IF OddPath \in DOMAIN results_dir THEN 1 ELSE 0)

\* the results the runner wrote so far, in order; upto[k] covers the first
\* k files
Produced ==
  LET upto[k \in 0..Len(saved)] ==
        IF k = 0 THEN <<>> ELSE upto[k - 1] \o saved[k].wrote
  IN  upto[Len(saved)]

\* the runner and the generator are started from a shell, one after the
\* other; the benchmarks are a and b, and there is no benchmark ab
PipelineInit ==
  /\ Init
  /\ benchmarks_dir = [a |-> "script", ab |-> "absent", b |-> "script"]
  /\ args = [list |-> FALSE, all |-> FALSE, benchmark |-> None]

\* the variables of one invocation of the runner, which are gone when it
\* has exited
runvars ==
  <<benchmarks_dir, args, pc, benchmarks, idx, results, run, procs, status,
    calls, spawned, returned, lifecycle, children>>

\* time passes between two invocations
PipelineTick ==
  /\ gpc = "idle"
  /\ now < MaxTicks
  /\ now' = now + 1
  /\ UNCHANGED <<runvars, results_dir, saved, genvars, benchvars>>

\* run_benchmark.py <name>, from start to exit
RunnerSingle ==
  /\ gpc = "idle"
  /\ Written < MaxRuns
  /\ \E n \in AllNames : \E child \in Scripts(n) :
       \E result \in {run_benchmark(n, child, now)} :
         /\ results_dir' = save_result(results_dir, result, now)
         /\ saved' = Append(saved, [path |-> ResultPath(result, now),
                                    wrote |-> <<result>>])
  /\ UNCHANGED <<runvars, now, genvars, benchvars>>

\* run_benchmark.py --all, from start to exit
RunnerAll ==
  /\ gpc = "idle"
  /\ Written < MaxRuns
  /\ \E kids \in [{n \in AllNames : ScriptExists(n)} ->
                    UNION {Scripts(n) : n \in AllNames}] :
       /\ \A n \in DOMAIN kids : kids[n] \in Scripts(n)
       /\ \E report \in {run_all_benchmarks(kids, now)} :
            /\ results_dir' = Put(results_dir, ReportPath(now),
                                  JsonFile(json_dump(report)))
            /\ saved' = Append(saved, [path |-> ReportPath(now),
                                       wrote |-> report.results])
  /\ UNCHANGED <<runvars, now, genvars, benchvars>>

\* a file that the runner did not write gets into the directory
PlaceForeignFile ==
  /\ gpc = "idle"
  /\ Written < MaxRuns
  /\ ForeignPath \notin DOMAIN results_dir
  /\ \E file \in ForeignFiles :
       results_dir' = Put(results_dir, ForeignPath, file)
  /\ UNCHANGED <<runvars, now, saved, genvars, benchvars>>

\* the command lines of the generator: the directory is the directory the
\* runner writes to or a path where nothing is, --format is markdown or
\* json, --output is absent or names a file outside the directory
GeneratorArguments ==
  [results_dir : {"results", "nowhere"}, format : {"markdown", "json"},
   output : {None, "leaderboard"}]

\* generate_leaderboard.py results
DefaultArguments ==
  [results_dir |-> "results", format |-> "markdown", output |-> None]

\* the lines load_results prints: a warning for each file skipped
Warnings(order, skipped) ==
  With(SelectSeq(order, LAMBDA f : f \in skipped), LAMBDA fs :
    [i \in 1..Len(fs) |-> [line |-> "Warning: Could not load", of |-> fs[i]]])

\* main() of generate_leaderboard.py called with the arguments ga, from
\* start to exit. A directory that does not exist and an empty list of
\* results end it with 1; an exception of group_by_benchmark goes up to
\* the interpreter, which prints the traceback on the standard error and
\* exits with 1; else the leaderboard is rendered, and written to the file
\* of --output or printed.
GeneratorMain(ga) ==
  /\ gpc = "idle"
  /\ gargs' = ga
  /\ IF ga.results_dir = "nowhere"
     THEN /\ printed' = <<[line |-> "Error: Results directory not found",
                           of |-> ga.results_dir]>>
          /\ gpc' = "exit 1"
          /\ UNCHANGED <<listing, loaded, warned, grouped, outputs, outfile>>
     ELSE \E order \in Listings(DOMAIN results_dir) :
          \E got \in {load_results(results_dir, order)} :
            /\ listing' = order
            /\ loaded' = got.results
            /\ warned' = got.warned
            /\ IF got.results = <<>>
               THEN /\ printed' =
                         Append(Warnings(order, got.warned),
                                [line |-> "Warning: No results found",
                                 of |-> ga.results_dir])
                    /\ gpc' = "exit 1"
                    /\ UNCHANGED <<grouped, outputs, outfile>>
               ELSE /\ grouped' = group_by_benchmark(got.results)
                    /\ IF "exc" \in DOMAIN grouped'
                       THEN /\ printed' = Warnings(order, got.warned)
                            /\ gpc' = "exit 1"
                            /\ UNCHANGED <<outputs, outfile>>
                       ELSE \E output \in
                              {IF ga.format = "markdown"
                               THEN generate_markdown_leaderboard(grouped',
                                                                  now)
                               ELSE json_dumps(generate_json_leaderboard(
                                                 grouped', now))} :
                            /\ outputs' = Append(outputs, output)
                            /\ IF ga.output # None
                               THEN /\ outfile' = <<output>>
                                    /\ printed' =
                                         Append(Warnings(order, got.warned),
                                                [line |->
                                                   "Leaderboard saved to",
                                                 of |-> ga.output])
                               ELSE /\ outfile' = outfile
                                    /\ printed' =
                                         Append(Warnings(order, got.warned),
                                                [line |-> "leaderboard",
                                                 of |-> output])
                            /\ gpc' = "exit 0"
  /\ UNCHANGED <<runvars, now, results_dir, saved, stats, benchvars>>

\* generate_leaderboard.py results
Generate == GeneratorMain(DefaultArguments)

\* calculate_statistics(results) called on the first so many of the
\* results produced so far
CallStatistics ==
  /\ gpc = "idle"
  /\ \E k \in 0..Len(Produced) :
       stats' = [called |-> TRUE, results |-> SubSeq(Produced, 1, k),
                 returned |-> calculate_statistics(SubSeq(Produced, 1, k))]
  /\ gpc' = "called"
  /\ UNCHANGED <<runvars, now, results_dir, saved, loaded, warned, grouped,
                 listing, outputs, gargs, printed, outfile, benchvars>>

PipelineNext ==
  \/ PipelineTick
  \/ RunnerSingle
  \/ RunnerAll
  \/ PlaceForeignFile
  \/ Generate
  \/ CallStatistics

PipelineSpec == PipelineInit /\ [][PipelineNext]_vars

(***************************************************************************)
(* The command line of the generator; files of any JSON in the directory   *)
(***************************************************************************)
\* a file of valid JSON that is no result gets into the directory
PlaceOddFile ==
  /\ gpc = "idle"
  /\ Written < MaxRuns
  /\ OddPath \notin DOMAIN results_dir
  /\ \E file \in OddFiles :
       results_dir' = Put(results_dir, OddPath, file)
  /\ UNCHANGED <<runvars, now, saved, genvars, benchvars>>

\* generate_leaderboard.py with any of its command lines
GenerateWithArguments == \E ga \in GeneratorArguments : GeneratorMain(ga)

GeneratorNext ==
  \/ RunnerSingle
  \/ RunnerAll
  \/ PlaceForeignFile
  \/ PlaceOddFile
  \/ GenerateWithArguments

GeneratorSpec == PipelineInit /\ [][GeneratorNext]_vars

(***************************************************************************)
(* Benchmark debugging-001: the LRU cache of the starter code              *)
(***************************************************************************)
\* the keys and the values the callers use
KeyNames == <<"k1", "k2", "k3", "k4", "k5">>
LruKeys == {KeyNames[i] : i \in 1..(MaxCapacity + 1)}
LruValues == {1, 2}

\* self._cache.move_to_end(key)
move_to_end(od, key) ==
  [od EXCEPT !.keys = SelectSeq(@, LAMBDA x : x # key) \o <<key>>]

\* self._cache[key] = value: a new key goes to the end, a key that is
\* there keeps its place
setitem(od, key, value) ==
  [keys |-> IF key \in DOMAIN od.vals THEN od.keys ELSE Append(od.keys, key),
   vals |-> Put(od.vals, key, value)]

\* put(key, value): the OrderedDict afterwards. A key that is there is
\* updated and moved to the end. At capacity the first key is looked up,
\* given the new value and moved to the end; the new key is not stored.
put(od, cap, key, value) ==
  IF key \in DOMAIN od.vals
  THEN move_to_end(setitem(od, key, value), key)
  ELSE IF Len(od.keys) >= cap
  THEN With(od.keys[1], LAMBDA lru_key :
         move_to_end(setitem(od, lru_key, value), lru_key))
  ELSE setitem(od, key, value)

\* get(key): what is returned, <<>> standing for None, and the OrderedDict
\* afterwards
get(od, key) ==
  IF key \notin DOMAIN od.vals
  THEN [returned |-> <<>>, cache |-> od]
  ELSE [returned |-> <<od.vals[key]>>, cache |-> move_to_end(od, key)]

\* the key was used: it goes to the end of the keys used
Touch(used, key) == SelectSeq(used, LAMBDA x : x # key) \o <<key>>

\* of the keys present, the one used longest ago
LeastRecent(used, present) ==
  With(SelectSeq(used, LAMBDA x : x \in present), LAMBDA u :
    IF u = <<>> THEN None ELSE u[1])

\* the call that lru_op records, after the call before it
Call(op, key, value, result) ==
  [op |-> op, key |-> key, value |-> value, returned |-> result,
   raised |-> "none", before |-> lru_cache,
   victim |-> LeastRecent(recency, DOMAIN lru_cache.vals),
   prev |-> [op |-> lru_op.op, key |-> lru_op.key, value |-> lru_op.value]]

\* the variables the cache does not touch
notlru ==
  <<runvars, now, results_dir, saved, genvars, countervars, poolvars,
    racevars>>

\* LRUCache(c): a capacity that is not positive raises ValueError
NewCache ==
  /\ capacity = 0
  /\ \E c \in 0..MaxCapacity :
       IF c <= 0
       THEN /\ lru_op' = [NoCall EXCEPT !.op = "init",
                                        !.raised = "ValueError"]
            /\ UNCHANGED <<capacity, lru_cache>>
       ELSE /\ capacity' = c
            /\ lru_cache' = EmptyOrderedDict
            /\ lru_op' = [NoCall EXCEPT !.op = "init"]
  /\ UNCHANGED <<recency, notlru>>

\* cache.put(key, value)
LruPut ==
  /\ capacity > 0
  /\ \E key \in LruKeys, value \in LruValues :
       /\ lru_cache' = put(lru_cache, capacity, key, value)
       /\ lru_op' = Call("put", key, value, <<>>)
       /\ recency' = Touch(recency, key)
  /\ UNCHANGED <<capacity, notlru>>

\* cache.get(key)
LruGet ==
  /\ capacity > 0
  /\ \E key \in LruKeys :
       \E got \in {get(lru_cache, key)} :
         /\ lru_cache' = got.cache
         /\ lru_op' = Call("get", key, 0, got.returned)
         /\ recency' = IF got.returned = <<>> THEN recency
                       ELSE Touch(recency, key)
  /\ UNCHANGED <<capacity, notlru>>

\* cache.size()
LruSize ==
  /\ capacity > 0
  /\ lru_op' = Call("size", None, 0, <<Len(lru_cache.keys)>>)
  /\ UNCHANGED <<capacity, lru_cache, recency, notlru>>

\* cache.clear()
LruClear ==
  /\ capacity > 0
  /\ lru_cache' = EmptyOrderedDict
  /\ lru_op' = Call("clear", None, 0, <<>>)
  /\ recency' = <<>>
  /\ UNCHANGED <<capacity, notlru>>

LruNext ==
  \/ NewCache
  \/ LruPut
  \/ LruGet
  \/ LruSize
  \/ LruClear

LruSpec == PipelineInit /\ [][LruNext]_vars

(***************************************************************************)
(* Benchmark concurrency-001: the MetricsCounter of the reference solution *)
(***************************************************************************)
\* The statements of a method, one step each. x += d is a load of x into
\* a local and a store of the local plus d, as the interpreter executes
\* it; a thread can be suspended between any two steps.
Acquire == [op |-> "acquire"]
Release == [op |-> "release"]
Sleep == [op |-> "sleep"]
Load(field) == [op |-> "load", field |-> field]
Store(field, d) == [op |-> "store", field |-> field, add |-> d]

\* as if the methods did not wait for the lock
LockFree_Ignored(lock) == TRUE

\* the lock can be taken
LockFree(lock) == lock = 0

\* increment_simple(): under the lock, current = self.total_requests, a
\* sleep, self.total_requests = current + 1
increment_simple ==
  <<Acquire, Load("total_requests"), Sleep, Store("total_requests", 1),
    Release>>

\* record_request(success, processing_time): under the lock, the total,
\* the counter of the outcome, the processing time and the request count
\* go up
record_request(success, processing_time) ==
  <<Acquire,
    Load("total_requests"), Store("total_requests", 1),
    Load(IF success THEN "successful_requests" ELSE "failed_requests"),
    Store(IF success THEN "successful_requests" ELSE "failed_requests", 1),
    Load("total_processing_time"),
    Store("total_processing_time", processing_time),
    Load("request_count"), Store("request_count", 1),
    Release>>

\* the variables the counter does not touch
notcounter ==
  <<runvars, now, results_dir, saved, genvars, lruvars, poolvars, racevars>>

\* the statement thread t executes next
NextStatement(t) == Head(cthread[t].program)

\* thread t has executed its next statement
Advance(t) == [cthread EXCEPT ![t].program = Tail(@)]

\* the calls of the counter made so far
CallsMade == made.increment_simple + made.record_request

\* thread t calls counter.increment_simple()
CallIncrementSimple(t) ==
  /\ cthread[t].program = <<>>
  /\ CallsMade < MaxCalls
  /\ cthread' = [cthread EXCEPT ![t].program = increment_simple]
  /\ made' = [made EXCEPT !.increment_simple = @ + 1]
  /\ UNCHANGED <<counter, counter_lock, notcounter>>

\* thread t calls counter.record_request(success, processing_time)
CallRecordRequest(t) ==
  /\ cthread[t].program = <<>>
  /\ CallsMade < MaxCalls
  /\ \E success \in BOOLEAN, processing_time \in {1} :
       cthread' = [cthread EXCEPT
                     ![t].program = record_request(success, processing_time)]
  /\ made' = [made EXCEPT !.record_request = @ + 1]
  /\ UNCHANGED <<counter, counter_lock, notcounter>>

\* with self.lock: the thread waits until the lock is free and takes it
CounterAcquire(t) ==
  /\ cthread[t].program # <<>>
  /\ NextStatement(t).op = "acquire"
  /\ LockFree(counter_lock)
  /\ counter_lock' = t
  /\ cthread' = Advance(t)
  /\ UNCHANGED <<counter, made, notcounter>>

\* the value of a field is read
CounterLoad(t) ==
  /\ cthread[t].program # <<>>
  /\ NextStatement(t).op = "load"
  /\ cthread' = [Advance(t) EXCEPT
                   ![t].current = counter[NextStatement(t).field]]
  /\ UNCHANGED <<counter, counter_lock, made, notcounter>>

\* time.sleep(0.0001)
CounterSleep(t) ==
  /\ cthread[t].program # <<>>
  /\ NextStatement(t).op = "sleep"
  /\ cthread' = Advance(t)
  /\ UNCHANGED <<counter, counter_lock, made, notcounter>>

\* the value read, plus the increment, is written to the field
CounterStore(t) ==
  /\ cthread[t].program # <<>>
  /\ NextStatement(t).op = "store"
  /\ counter' = [counter EXCEPT ![NextStatement(t).field] =
                                  cthread[t].current + NextStatement(t).add]
  /\ cthread' = Advance(t)
  /\ UNCHANGED <<counter_lock, made, notcounter>>

\* the end of the with block: the lock is released and the method returns
CounterRelease(t) ==
  /\ cthread[t].program # <<>>
  /\ NextStatement(t).op = "release"
  /\ counter_lock' = 0
  /\ cthread' = Advance(t)
  /\ UNCHANGED <<counter, made, notcounter>>

CounterNext ==
  \/ \E t \in CounterThreads : CallIncrementSimple(t)
  \/ \E t \in CounterThreads : CallRecordRequest(t)
  \/ \E t \in CounterThreads : CounterAcquire(t)
  \/ \E t \in CounterThreads : CounterLoad(t)
  \/ \E t \in CounterThreads : CounterSleep(t)
  \/ \E t \in CounterThreads : CounterStore(t)
  \/ \E t \in CounterThreads : CounterRelease(t)

CounterSpec == PipelineInit /\ [][CounterNext]_vars

(***************************************************************************)
(* Benchmark concurrency-001: the WorkerPool of the reference solution     *)
(***************************************************************************)
\* Statements of the pool's methods and of the executor loop of the test,
\* besides those of the counter.
QueueGet == [op |-> "get"]
SetState(state) == [op |-> "state", state |-> state]
RunTask == [op |-> "task"]
AppendResult(ok) == [op |-> "append", ok |-> ok]
CheckPending == [op |-> "pending"]
Break == [op |-> "break"]

\* as if queue.get left the task in the queue
Dequeue_Peek(q) == q

\* what queue.get leaves in the queue
Dequeue(q) == Tail(q)

\* get_next_task(worker_id): the task is taken from the queue, then
\* under the lock the worker becomes BUSY and active_workers goes up
get_next_task ==
  <<QueueGet, Acquire, SetState("busy"), Load("active_workers"),
    Store("active_workers", 1), Release>>

\* execute_task(worker_id, task): the task is called; what follows
\* depends on whether it raised
execute_task == <<RunTask>>

\* the rest of the try block after the task returned
execute_task_try ==
  <<Acquire, AppendResult(TRUE), Load("completed_tasks"),
    Store("completed_tasks", 1), Release>>

\* the except block
execute_task_except ==
  <<Acquire, Load("failed_tasks"), Store("failed_tasks", 1),
    AppendResult(FALSE),
    Release>>

\* the finally block
execute_task_finally ==
  <<Acquire, SetState("idle"), Load("active_workers"),
    Store("active_workers", 0 - 1), Release>>

\* the else branch of the executor loop: no task was returned; the loop
\* ends when the pending count is 0 twice in a row
no_task == <<CheckPending, CheckPending, Break>>

\* the variables the pool does not touch
notpool ==
  <<runvars, now, results_dir, saved, genvars, lruvars, countervars,
    racevars>>

\* the statement worker w executes next
NextOf(w) == Head(wthread[w].program)

\* worker w has executed its next statement
Done(w) == [wthread EXCEPT ![w].program = Tail(@)]

\* w is about to execute a statement of kind op
At(w, op) == wthread[w].program # <<>> /\ NextOf(w).op = op

\* pool.submit_task(task), before the executors are started
SubmitTask ==
  /\ ~phist.started
  /\ phist.submitted < MaxTasks
  /\ pool' = [pool EXCEPT !.task_queue = Append(@, phist.submitted + 1)]
  /\ phist' = [phist EXCEPT !.submitted = @ + 1]
  /\ UNCHANGED <<pool_lock, wthread, notpool>>

\* the executor threads are started, each at the top of its loop
StartExecutors ==
  /\ ~phist.started
  /\ phist' = [phist EXCEPT !.started = TRUE]
  /\ wthread' = [w \in PoolWorkers |->
                   [wthread[w] EXCEPT !.program = get_next_task]]
  /\ UNCHANGED <<pool, pool_lock, notpool>>

\* self.task_queue.get(timeout=0.001): the head of the queue is taken, or
\* queue.Empty is raised, None returned and the else branch of the loop
\* entered
PoolQueueGet(w) ==
  /\ At(w, "get")
  /\ IF pool.task_queue # <<>>
       THEN /\ pool' = [pool EXCEPT !.task_queue = Dequeue(@)]
            /\ wthread' = [wthread EXCEPT
                             ![w].task = Head(pool.task_queue),
                             ![w].program = Tail(@) \o execute_task]
            /\ phist' = [phist EXCEPT
                           !.handed[Head(pool.task_queue)] = @ + 1]
       ELSE /\ wthread' = [wthread EXCEPT ![w].task = 0,
                                           ![w].program = no_task]
            /\ UNCHANGED <<pool, phist>>
  /\ UNCHANGED <<pool_lock, notpool>>

\* with self.lock
PoolAcquire(w) ==
  /\ At(w, "acquire")
  /\ LockFree(pool_lock)
  /\ pool_lock' = w
  /\ wthread' = Done(w)
  /\ UNCHANGED <<pool, phist, notpool>>

\* self.worker_states[worker_id] = ...
PoolSetState(w) ==
  /\ At(w, "state")
  /\ pool' = [pool EXCEPT !.worker_states[w] = NextOf(w).state]
  /\ wthread' = Done(w)
  /\ UNCHANGED <<pool_lock, phist, notpool>>

\* the value of a statistic is read
PoolLoad(w) ==
  /\ At(w, "load")
  /\ wthread' = [Done(w) EXCEPT ![w].current = pool[NextOf(w).field]]
  /\ UNCHANGED <<pool, pool_lock, phist, notpool>>

\* the value read, plus the increment, is written; the value read is
\* not used again
PoolStore(w) ==
  /\ At(w, "store")
  /\ pool' = [pool EXCEPT ![NextOf(w).field] =
                            wthread[w].current + NextOf(w).add]
  /\ wthread' = [Done(w) EXCEPT ![w].current = 0]
  /\ UNCHANGED <<pool_lock, phist, notpool>>

\* self.results.append(...): the result of the task, or the error message
PoolAppend(w) ==
  /\ At(w, "append")
  /\ pool' = [pool EXCEPT !.results =
                 Append(@, [ok |-> NextOf(w).ok, task |-> wthread[w].task])]
  /\ wthread' = Done(w)
  /\ UNCHANGED <<pool_lock, phist, notpool>>

\* the end of a with block
PoolRelease(w) ==
  /\ At(w, "release")
  /\ pool_lock' = 0
  /\ wthread' = Done(w)
  /\ UNCHANGED <<pool, phist, notpool>>

\* result = task(): the task returns or raises an Exception; after the
\* finally block the loop calls get_next_task again
PoolRunTask(w) ==
  /\ At(w, "task")
  /\ \E raises \in BOOLEAN :
       wthread' = [wthread EXCEPT ![w].program =
                     (IF raises THEN execute_task_except
                                ELSE execute_task_try)
                       \o execute_task_finally \o get_next_task]
  /\ phist' = [phist EXCEPT !.executed[wthread[w].task] = @ + 1]
  /\ UNCHANGED <<pool, pool_lock, notpool>>

\* if pool.get_pending_count() == 0, else the loop calls get_next_task
\* again
PoolCheckPending(w) ==
  /\ At(w, "pending")
  /\ wthread' = IF Len(pool.task_queue) = 0
                  THEN Done(w)
                  ELSE [wthread EXCEPT ![w].program = get_next_task]
  /\ UNCHANGED <<pool, pool_lock, phist, notpool>>

\* break: the executor thread ends
PoolBreak(w) ==
  /\ At(w, "break")
  /\ wthread' = Done(w)
  /\ UNCHANGED <<pool, pool_lock, phist, notpool>>

PoolNext ==
  \/ SubmitTask
  \/ StartExecutors
  \/ \E w \in PoolWorkers : PoolQueueGet(w)
  \/ \E w \in PoolWorkers : PoolAcquire(w)
  \/ \E w \in PoolWorkers : PoolSetState(w)
  \/ \E w \in PoolWorkers : PoolLoad(w)
  \/ \E w \in PoolWorkers : PoolStore(w)
  \/ \E w \in PoolWorkers : PoolAppend(w)
  \/ \E w \in PoolWorkers : PoolRelease(w)
  \/ \E w \in PoolWorkers : PoolRunTask(w)
  \/ \E w \in PoolWorkers : PoolCheckPending(w)
  \/ \E w \in PoolWorkers : PoolBreak(w)

PoolSpec == PipelineInit /\ [][PoolNext]_vars

(***************************************************************************)
(* A result file read by load_results while save_result writes it          *)
(***************************************************************************)
\* The text of a file is a sequence of tokens: the braces, the comma, the
\* newline with its indentation, and one token for each member.
LBrace == [tok |-> "{"]
RBrace == [tok |-> "}"]
Comma == [tok |-> ","]
Indent == [tok |-> "LF"]
Member(k, v) == [tok |-> "member", key |-> k, value |-> v]

\* the order in which the members of a result are written
MemberOrder ==
  <<"benchmark", "passed", "final_score", "error", "stdout", "stderr",
    "exit_code", "execution_time_ms", "timestamp">>

\* json.dump(result, f, indent=2): the text of the object doc, each member
\* on a line of its own; from[i] is the text of the members from the i-th
\* on
Text(doc) ==
  With(SelectSeq(MemberOrder, LAMBDA k : k \in DOMAIN doc), LAMBDA keys :
    LET from[i \in 1..(Len(keys) + 1)] ==
          IF i > Len(keys) THEN <<Indent, RBrace>>
          ELSE <<Indent, Member(keys[i], doc[keys[i]])>>
                 \o (IF i < Len(keys) THEN <<Comma>> ELSE <<>>)
                 \o from[i + 1]
    IN  IF keys = <<>> THEN <<LBrace, RBrace>> ELSE <<LBrace>> \o from[1])

\* member ("," member)* between the braces, or nothing
WellFormed(ms) ==
  \/ ms = <<>>
  \/ /\ Len(ms) % 2 = 1
     /\ \A k \in 1..Len(ms) :
          IF k % 2 = 1 THEN ms[k].tok = "member" ELSE ms[k].tok = ","

\* the object of the members ms; a repeated key keeps its last value
ObjectOf(ms) ==
  LET upto[k \in 0..Len(ms)] ==
        IF k = 0 THEN EmptyDict
        ELSE IF ms[k].tok = "," THEN upto[k - 1]
        ELSE Put(upto[k - 1], ms[k].key, ms[k].value)
  IN  upto[Len(ms)]

\* as if the decoder took the text up to its end for an object, whether
\* the closing brace is there or not
ParseText_Lenient(text) ==
  With(SelectSeq(text, LAMBDA t : t.tok \notin {"LF", "}", ","}),
       LAMBDA toks :
    IF toks # <<>> /\ toks[1].tok = "{"
       /\ \A k \in 2..Len(toks) : toks[k].tok = "member"
    THEN Return([k \in {toks[j].key : j \in 2..Len(toks)} |->
                   (CHOOSE t \in {toks[j] : j \in 2..Len(toks)} :
                      t.key = k).value])
    ELSE Raise("JSONDecodeError"))

\* json.load(f) on the text read: whitespace apart, the text has to be
\* one object from its first token to its last; an empty text, an object
\* that is not closed and text after the closing brace raise
\* JSONDecodeError
ParseText(text) ==
  With(SelectSeq(text, LAMBDA t : t.tok # "LF"), LAMBDA toks :
    IF /\ Len(toks) >= 2
       /\ toks[1].tok = "{"
       /\ toks[Len(toks)].tok = "}"
       /\ WellFormed(SubSeq(toks, 2, Len(toks) - 1))
    THEN Return(ObjectOf(SubSeq(toks, 2, Len(toks) - 1)))
    ELSE Raise("JSONDecodeError"))

\* a file that holds no JSON
NoJsonFile == [readable |-> TRUE, valid |-> FALSE, doc |-> EmptyDict]

\* the file as json.load finds it when it has read text
FileOfText(text) ==
  With(ParseText(text), LAMBDA parsed :
    IF parsed.exc # "none" THEN NoJsonFile ELSE JsonFile(parsed.val))

\* the file is being written
InFlight(f) == wfile.pc = "open" /\ f = wfile.path

\* the file holds one object that is no report, which is what save_result
\* writes; such a file can be written again while it is read
HasText(f) ==
  \/ InFlight(f)
  \/ /\ results_dir[f].readable
     /\ results_dir[f].valid
     /\ IsDict(results_dir[f].doc)
     /\ "results" \notin DOMAIN results_dir[f].doc

\* what the file holds now: of a file being written, the part of the text
\* that has reached it
DiskText(f) ==
  IF InFlight(f) THEN SubSeq(wfile.text, 1, wfile.flushed)
  ELSE Text(results_dir[f].doc)

\* what a read at offset n returns: the text from there to the end of the
\* file, nothing at or beyond the end
ReadFrom(f, n) ==
  With(DiskText(f), LAMBDA text :
    IF n >= Len(text) THEN <<>> ELSE SubSeq(text, n + 1, Len(text)))

\* the variables the writer and the reader do not touch
notrace ==
  <<runvars, now, stats, grouped, outputs, gargs, printed, outfile, lruvars,
    countervars, poolvars>>

\* the verification scripts of the runner that writes: those that print
\* a scored result, one that never ends and one that prints nothing, so
\* that the texts written are of three lengths
WriterScripts(n) ==
  Scripts(n) \cup
    { c \in Behaviours(n) :
        \/ c.hangs
        \/ ChildExited(c) /\ c.out = <<>> /\ c.returncode = 0 }

\* run_benchmark.py <name> up to open(filepath, "w") in save_result: the
\* benchmark has run, the file is created, or emptied when it is there
WriterOpen ==
  /\ wfile.pc = "idle"
  /\ Written < MaxRuns
  /\ \E n \in AllNames :
       \E result \in {run_benchmark(n, child, now) :
                        child \in WriterScripts(n)} :
         /\ wfile' = [pc |-> "open",
                      path |-> ResultPath(result, now),
                      result |-> result,
                      text |-> Text(json_dump(result)),
                      flushed |-> 0,
                      before |->
                        IF ResultPath(result, now) \in DOMAIN results_dir
                        THEN <<results_dir[ResultPath(result, now)]>>
                        ELSE <<>>,
                      raced |-> gpc = "loading"]
         /\ results_dir' = Put(results_dir, ResultPath(result, now),
                               NoJsonFile)
  /\ UNCHANGED <<saved, gpc, loaded, warned, listing, reader, notrace>>

\* json.dump writes into the buffer of f; some more of the text reaches
\* the file
WriterFlush ==
  /\ wfile.pc = "open"
  /\ \E n \in (wfile.flushed + 1)..Len(wfile.text) :
       wfile' = [wfile EXCEPT !.flushed = n]
  /\ UNCHANGED <<results_dir, saved, gpc, loaded, warned, listing, reader,
                 notrace>>

\* the end of the with block: the rest of the text reaches the file and
\* the file is closed
WriterClose ==
  /\ wfile.pc = "open"
  /\ wfile' = [wfile EXCEPT !.pc = "closed", !.flushed = Len(wfile.text)]
  /\ results_dir' = Put(results_dir, wfile.path,
                        FileOfText(wfile.text))
  /\ saved' = Append(saved, [path |-> wfile.path,
                             wrote |-> <<wfile.result>>])
  /\ UNCHANGED <<gpc, loaded, warned, listing, reader, notrace>>

\* load_results() up to the first file: results = [], and glob lists the
\* files that are there
RaceList ==
  /\ gpc = "idle"
  /\ \E order \in Listings(DOMAIN results_dir) : listing' = order
  /\ gpc' = "loading"
  /\ loaded' = <<>>
  /\ warned' = {}
  /\ reader' = [NotReading EXCEPT !.i = 1]
  /\ wfile' = [wfile EXCEPT !.raced = @ \/ wfile.pc = "open"]
  /\ UNCHANGED <<results_dir, saved, notrace>>

\* the file the loop is at
Current == listing[reader.i]

\* the body of the try statement has ended for the file, which held file
\* when it was read
Loaded(file) ==
  \E body \in {LoadFile(loaded, file)} :
    /\ IF body.exc # "none"
       THEN /\ warned' = warned \cup {Current}
            /\ loaded' = loaded
       ELSE /\ loaded' = body.val
            /\ warned' = warned
    /\ reader' = [NotReading EXCEPT !.i = reader.i + 1]

\* open(filepath): a file that can be written again is open for reading;
\* any other file is loaded, or reported, in the same step
RaceOpen ==
  /\ gpc = "loading"
  /\ reader.i <= Len(listing)
  /\ ~reader.open
  /\ IF HasText(Current)
     THEN /\ reader' = [reader EXCEPT !.open = TRUE]
          /\ UNCHANGED <<loaded, warned>>
     ELSE Loaded(results_dir[Current])
  /\ UNCHANGED <<results_dir, saved, gpc, listing, wfile, notrace>>

\* f.read() inside json.load: the file is read from where the last read
\* ended; a read that returns nothing is the end of the file, and what
\* was read is decoded
RaceRead ==
  /\ gpc = "loading"
  /\ reader.open
  /\ \E data \in {ReadFrom(Current, Len(reader.buf))} :
       IF data # <<>>
       THEN /\ reader' = [reader EXCEPT !.buf = @ \o data]
            /\ UNCHANGED <<loaded, warned>>
       ELSE Loaded(FileOfText(reader.buf))
  /\ UNCHANGED <<results_dir, saved, gpc, listing, wfile, notrace>>

\* return results
RaceReturn ==
  /\ gpc = "loading"
  /\ reader.i > Len(listing)
  /\ gpc' = "loaded"
  /\ UNCHANGED <<results_dir, saved, loaded, warned, listing, wfile, reader,
                 notrace>>

\* a runner that ran from start to exit before
RaceRunnerSingle == wfile.pc = "idle" /\ RunnerSingle

\* a file put there before
RacePlaceForeignFile == wfile.pc = "idle" /\ PlaceForeignFile

RaceNext ==
  \/ RaceRunnerSingle
  \/ RacePlaceForeignFile
  \/ WriterOpen
  \/ WriterFlush
  \/ WriterClose
  \/ RaceList
  \/ RaceOpen
  \/ RaceRead
  \/ RaceReturn

RaceSpec == PipelineInit /\ [][RaceNext]_vars

(***************************************************************************)
(* Properties                                                              *)
(***************************************************************************)
\* the run_benchmark call of n has not returned yet
InProgress(n) == run.name = n /\ run.state \in {"PENDING", "DISPATCHED"}

\* main was started with --all (and without --list)
IsSweep == args.all /\ ~args.list

Last(s) == s[Len(s)]

IsPrefix(s, t) == Len(s) <= Len(t) /\ SubSeq(t, 1, Len(s)) = s

\* C1: whatever the verification script does (absent, JSON object, JSON
\* that is no object, no JSON, timeout, launch failure), every call of
\* run_benchmark returns exactly one result and raises nothing to its
\* caller.
C1_AlwaysOneResult ==
  /\ pc # "aborted"
  /\ run.state # "RAISED"
  /\ \A n \in AllNames :
       Len(returned[n]) = calls[n] - (IF InProgress(n) THEN 1 ELSE 0)
  /\ run.state \in TerminalStates =>
       /\ returned[run.name] # <<>>
       /\ run.result = Last(returned[run.name])
       /\ "benchmark" \in DOMAIN run.result \/ "passed" \in DOMAIN run.result

\* a script that printed JSON that is no object: the call still returned
\* a result
C1_Witness ==
  /\ run.state = "CRASHED"
  /\ run.child.out = <<"[", "]", "LF">>
  /\ Len(returned[run.name]) = 1
  /\ "error" \in DOMAIN run.result

\* the run of n failed: timed out, crashed, or produced an error result
RunFailed(n) ==
  /\ lifecycle[n] # <<>>
  /\ \/ Last(lifecycle[n]) \in {"TIMED_OUT", "CRASHED", "RAISED"}
     \/ returned[n] # <<>> /\ "error" \in DOMAIN Last(returned[n])

\* C2: in a sweep, a benchmark that times out, prints malformed output or
\* cannot be launched does not abort the sweep: every benchmark listed
\* after it is run and has its result in the report, and nothing is raised
\* to the caller of run_all_benchmarks.
C2_FailureDoesNotAbortSweep ==
  IsSweep =>
    /\ pc # "aborted"
    /\ pc = "exit" =>
         \A j \in 1..Len(benchmarks) : \A k \in (j + 1)..Len(benchmarks) :
           RunFailed(benchmarks[j]) =>
             /\ calls[benchmarks[k]] = 1
             /\ k <= Len(results.results)
             /\ returned[benchmarks[k]] = <<results.results[k]>>
             /\ \E f \in DOMAIN results_dir :
                  json_load(results_dir[f]).val.results.items[k] =
                    results.results[k]

\* a finished sweep whose first benchmark timed out and whose second one
\* passed
C2_Witness ==
  /\ IsSweep
  /\ pc = "exit"
  /\ Len(benchmarks) >= 2
  /\ Last(lifecycle[benchmarks[1]]) = "TIMED_OUT"
  /\ Len(results.results) >= 2
  /\ Passed(results.results[2])

\* C3: run_all_benchmarks runs every discovered benchmark exactly once, in
\* the lexicographic order of list_benchmarks, and its report has one
\* result per benchmark in that order and total_benchmarks equal to their
\* number.
C3_SweepRunsEachOnce ==
  (IsSweep /\ pc # "main") =>
    /\ {benchmarks[k] : k \in 1..Len(benchmarks)} =
         {n \in AllNames : benchmarks_dir[n] = "script"}
    /\ \A j \in 1..Len(benchmarks) : \A k \in (j + 1)..Len(benchmarks) :
         StrLess(benchmarks[j], benchmarks[k])
    /\ results.total_benchmarks = Len(benchmarks)
    /\ \A n \in AllNames : calls[n] <= 1 /\ spawned[n] <= 1
    /\ Len(results.results) <= Len(benchmarks)
    /\ \A k \in 1..Len(results.results) :
         returned[benchmarks[k]] = <<results.results[k]>>
    /\ \A k \in 1..Len(benchmarks) :
         k > Len(results.results) + 1 => calls[benchmarks[k]] = 0
    /\ pc = "exit" =>
         /\ Len(results.results) = Len(benchmarks)
         /\ \A n \in AllNames :
              calls[n] = (IF benchmarks_dir[n] = "script" THEN 1 ELSE 0)

\* a finished sweep over two benchmarks, the first of which failed
C3_Witness ==
  /\ IsSweep
  /\ pc = "exit"
  /\ Len(benchmarks) >= 2
  /\ Len(results.results) = Len(benchmarks)
  /\ "error" \in DOMAIN results.results[1]
  /\ calls[benchmarks[1]] = 1

\* the paths of the state machine of one run
LifecyclePaths ==
  { <<"PENDING", "SCRIPT_MISSING">>,
    <<"PENDING", "DISPATCHED", "COMPLETED">>,
    <<"PENDING", "DISPATCHED", "TIMED_OUT">>,
    <<"PENDING", "DISPATCHED", "CRASHED">> }

\* C4: a run goes PENDING -> DISPATCHED -> COMPLETED, TIMED_OUT or CRASHED,
\* or PENDING -> SCRIPT_MISSING without being dispatched; it reaches one
\* terminal state, never leaves it, and has a result exactly when it is in
\* a terminal state.
C4_RunLifecycle ==
  \A n \in AllNames :
    /\ \E path \in LifecyclePaths : IsPrefix(lifecycle[n], path)
    /\ Len(returned[n]) = (IF lifecycle[n] \in LifecyclePaths THEN 1 ELSE 0)
    /\ (benchmarks_dir[n] # "script" /\ Len(lifecycle[n]) >= 2) =>
         lifecycle[n] = <<"PENDING", "SCRIPT_MISSING">> /\ spawned[n] = 0
    /\ (benchmarks_dir[n] = "script" /\ Len(lifecycle[n]) >= 2) =>
         lifecycle[n][2] = "DISPATCHED"
    /\ (run.name = n /\ run.state # "NONE") => run.state = Last(lifecycle[n])

\* one sweep in which a run completed and another one crashed
C4_Witness ==
  \E n \in AllNames : \E m \in AllNames :
    /\ lifecycle[n] = <<"PENDING", "DISPATCHED", "COMPLETED">>
    /\ lifecycle[m] = <<"PENDING", "DISPATCHED", "CRASHED">>
    /\ Len(returned[n]) = 1
    /\ Len(returned[m]) = 1

\* C5: a verification script that hangs cannot block the runner: every
\* dispatched run_benchmark call eventually returns (the timeout ends the
\* wait and the child is killed), and so every sweep eventually completes.
C5_RunsAndSweepsTerminate ==
  /\ (run.state = "DISPATCHED") ~> (run.state \in TerminalStates)
  /\ (pc = "sweep") ~> (pc = "exit")

\* a sweep in which a script that never exits was timed out and the next
\* benchmark was started
C5_Witness ==
  /\ IsSweep
  /\ \E n \in AllNames :
       /\ lifecycle[n] = <<"PENDING", "DISPATCHED", "TIMED_OUT">>
       /\ n \notin procs
       /\ run.name # n
  /\ run.state = "TIMED_OUT"
  /\ run.child.hangs

\* the child of the current run was started and was still running when
\* the timeout expired
RanTooLong ==
  /\ run.state \notin {"NONE", "PENDING", "DISPATCHED"}
  /\ run.child.launch = "ok"
  /\ run.child.hangs \/ run.child.seconds > Timeout

\* C6: when the verification script runs longer than the timeout,
\* run_benchmark returns an error result for that benchmark with error
\* "Execution timeout (300s)", and the timeout never reaches the sweep loop
\* as an exception.
C6_TimeoutGivesErrorResult ==
  /\ RanTooLong =>
       /\ run.state = "TIMED_OUT"
       /\ DOMAIN run.result = {"benchmark", "error", "timestamp"}
       /\ run.result.benchmark = run.name
       /\ run.result.error = "Execution timeout (300s)"
       /\ returned[run.name] = <<run.result>>
       /\ pc # "aborted"
  /\ (IsSweep /\ pc # "main") =>
       \A k \in 1..Len(results.results) :
         Last(lifecycle[benchmarks[k]]) = "TIMED_OUT" =>
           results.results[k].error = "Execution timeout (300s)"

\* a script that needed 301 seconds: the run ended with the timeout error
C6_Witness ==
  /\ run.state = "TIMED_OUT"
  /\ ~run.child.hangs
  /\ run.child.seconds = 301
  /\ run.result.error = "Execution timeout (300s)"

\* C7: the benchmarks of a sweep run one after the other: at most one
\* verification subprocess is alive at any time, it belongs to the run in
\* progress, and it has exited or been killed by the time run_benchmark
\* returns, hence before the next one is started.
C7_OneSubprocessAtATime ==
  /\ Cardinality(procs) <= 1
  /\ procs # {} =>
       /\ procs = {run.name}
       /\ run.state = "DISPATCHED"
       /\ run.child.launch = "ok"
  /\ \A n \in AllNames : returned[n] # <<>> => n \notin procs
  /\ \A n \in AllNames :
       (lifecycle[n] # <<>> /\ Last(lifecycle[n]) \in TerminalStates) =>
         n \notin procs

\* a sweep in which the first child was killed at the timeout and the
\* child of the second benchmark is now the only one alive
C7_Witness ==
  /\ pc = "sweep"
  /\ Len(results.results) >= 1
  /\ Last(lifecycle[benchmarks[1]]) = "TIMED_OUT"
  /\ spawned[benchmarks[1]] = 1
  /\ run.state = "DISPATCHED"
  /\ run.name # benchmarks[1]
  /\ procs = {run.name}

\* C8: for a benchmark directory without verification/verify.sh,
\* run_benchmark returns a result with error "verify.sh not found" and no
\* subprocess is started.
C8_MissingScriptNoSubprocess ==
  \A n \in AllNames :
    (benchmarks_dir[n] # "script" /\ calls[n] > 0) =>
      /\ spawned[n] = 0
      /\ n \notin procs
      /\ \/ run.name = n /\ run.state = "PENDING"
         \/ /\ Len(returned[n]) = 1
            /\ returned[n][1].benchmark = n
            /\ returned[n][1].error = "verify.sh not found"

\* run_benchmark returned for a directory that has no verify.sh
C8_Witness ==
  \E n \in AllNames :
    /\ benchmarks_dir[n] = "dir"
    /\ run.name = n
    /\ run.state = "SCRIPT_MISSING"
    /\ returned[n] = <<run.result>>
    /\ run.result.error = "verify.sh not found"
    /\ spawned[n] = 0

\* the child of the current run was started and exited before the timeout
Exited ==
  /\ run.state \notin {"NONE", "PENDING", "DISPATCHED"}
  /\ run.child.launch = "ok"
  /\ ~run.child.hangs
  /\ run.child.seconds < Timeout

\* the bytes are text: every one of them decodes
IsText(bytes) == \A k \in 1..Len(bytes) : bytes[k] # "FF"

\* the bytes are the text of one JSON value
IsJson(bytes) ==
  IsText(bytes) /\ json_loads(TranslateNewlines(bytes)).exc = "none"

\* C9 as claimed: when the script exits with stdout that is not valid JSON,
\* run_benchmark returns an error result with the benchmark name, error
\* "Invalid JSON output", and stdout and stderr equal, unchanged, to what
\* the subprocess wrote.
C9_OutputUnchanged ==
  (Exited /\ ~IsJson(run.child.out)) =>
    /\ Get(run.result, "benchmark", None) = run.name
    /\ Get(run.result, "error", None) = "Invalid JSON output"
    /\ Get(run.result, "stdout", <<>>) = run.child.out
    /\ Get(run.result, "stderr", <<>>) = run.child.err

\* the number of c in s
Count(s, c) == Cardinality({k \in 1..Len(s) : s[k] = c})

\* the tokens of s that are no line ends
WithoutNewlines(s) == SelectSeq(s, LAMBDA c : c \notin {"CR", "LF"})

\* text is bytes with universal newlines: every "\r\n" and every other
\* "\r" has become "\n", and nothing else has changed
IsNewlineTranslation(text, bytes) ==
  /\ Count(text, "CR") = 0
  /\ WithoutNewlines(text) = WithoutNewlines(bytes)
  /\ Count(text, "LF") =
       Count(bytes, "CR") + Count(bytes, "LF")
         - Cardinality({k \in 1..(Len(bytes) - 1) :
                          bytes[k] = "CR" /\ bytes[k + 1] = "LF"})
  /\ Count(bytes, "CR") = 0 => text = bytes

\* C9 as amended: when the script exits with stdout and stderr that
\* decode as text and a stdout that json.loads rejects, run_benchmark
\* returns an error result with the benchmark name, error "Invalid JSON
\* output", the exit code, and stdout and stderr equal to what the
\* subprocess wrote with every "\r\n" and "\r" turned into "\n" (unchanged
\* when the output has no carriage return).
C9_OutputNewlineTranslated ==
  (Exited /\ IsText(run.child.out) /\ IsText(run.child.err)
     /\ ~IsJson(run.child.out)) =>
    /\ run.state = "COMPLETED"
    /\ DOMAIN run.result =
         {"benchmark", "error", "stdout", "stderr", "exit_code", "timestamp",
          "execution_time_ms"}
    /\ run.result.benchmark = run.name
    /\ run.result.error = "Invalid JSON output"
    /\ IsNewlineTranslation(run.result.stdout, run.child.out)
    /\ IsNewlineTranslation(run.result.stderr, run.child.err)
    /\ run.result.exit_code = run.child.returncode

\* a script that wrote "x\r\nx" and, on stderr, "e\re": the result carries
\* "x\nx" and "e\ne"
C9_Witness ==
  /\ run.state = "COMPLETED"
  /\ run.child.out = <<"x", "CR", "LF", "x">>
  /\ run.child.err = <<"e", "CR", "e">>
  /\ run.result.error = "Invalid JSON output"
  /\ run.result.stdout = <<"x", "LF", "x">>
  /\ run.result.stderr = <<"e", "LF", "e">>

\* C10 as claimed: on every path of run_benchmark (script missing, JSON,
\* invalid JSON, timeout, crash) the returned result has an exit_code
\* field: the exit status of the subprocess when it completed, None for a
\* timeout.
C10_ExitCodeOnEveryPath ==
  run.state \in TerminalStates =>
    /\ "exit_code" \in DOMAIN run.result
    /\ Exited => run.result.exit_code = run.child.returncode
    /\ run.state = "TIMED_OUT" => run.result.exit_code = None

\* stdout of the current run decodes and is a JSON object, or is no JSON
ObjectOrNoJson ==
  /\ IsText(run.child.out)
  /\ IsText(run.child.err)
  /\ \/ ~IsJson(run.child.out)
     \/ json_loads(TranslateNewlines(run.child.out)).val.kind = "object"

\* C10 as amended: the result has an exit_code field exactly when the
\* subprocess completed and its stdout was a JSON object or was rejected
\* by json.loads; the field is then the exit status of the subprocess,
\* whatever exit_code the script printed. The results for a missing
\* script, a timeout, a launch failure, undecodable output and JSON that is
\* no object have no exit_code field.
C10_ExitCodeOnlyWhenCompleted ==
  run.state \in TerminalStates =>
    /\ ("exit_code" \in DOMAIN run.result) = (run.state = "COMPLETED")
    /\ (run.state = "COMPLETED") = (Exited /\ ObjectOrNoJson)
    /\ run.state = "COMPLETED" =>
         run.result.exit_code = run.child.returncode

\* a script that printed an object with "exit_code": 9 and exited with 0
\* or 1: the result carries the exit status
C10_Witness ==
  /\ run.state = "COMPLETED"
  /\ run.child.out = <<"{", "passed:true", ",", "exit_code:9", "}">>
  /\ run.result.exit_code = run.child.returncode
  /\ run.result.passed

\* the result has a passed field that is true
HasTruePassed(r) == "passed" \in DOMAIN r /\ r.passed = TRUE

\* the run of n ended in one of run_benchmark's own error results
EndedInError(n) ==
  /\ returned[n] # <<>>
  /\ \/ Last(lifecycle[n]) \in {"SCRIPT_MISSING", "TIMED_OUT", "CRASHED"}
     \/ Get(Last(returned[n]), "error", None) = "Invalid JSON output"

\* C11: when main exits, its exit status is 0 exactly when every requested
\* run passed: with --all, 0 iff every benchmark of the sweep returned a
\* result with a true passed field; with a benchmark name, 0 iff its result
\* has one; a run that ended in an error result (missing script, timeout,
\* invalid JSON, crash) makes the status 1; without a name, --all and
\* --list the status is 1.
C11_ExitStatusIffAllPassed ==
  pc = "exit" =>
    /\ status \in {<<0>>, <<1>>}
    /\ IsSweep =>
         /\ (status = <<0>>) =
              (\A n \in AllNames : ScriptExists(n) =>
                 /\ Len(returned[n]) = 1
                 /\ HasTruePassed(returned[n][1]))
         /\ (\E n \in AllNames : EndedInError(n)) => status = <<1>>
    /\ (~args.list /\ ~args.all /\ args.benchmark # None) =>
         /\ Len(returned[args.benchmark]) = 1
         /\ (status = <<0>>) = HasTruePassed(returned[args.benchmark][1])
         /\ EndedInError(args.benchmark) => status = <<1>>
    /\ (~args.list /\ ~args.all /\ args.benchmark = None) => status = <<1>>

\* a sweep of two benchmarks, the first passed and the second printed no
\* JSON: main exited with 1
C11_Witness ==
  /\ pc = "exit"
  /\ IsSweep
  /\ Len(results.results) = 2
  /\ HasTruePassed(results.results[1])
  /\ Get(results.results[2], "error", None) = "Invalid JSON output"
  /\ status = <<1>>

\* the benchmarks main was asked to run
Requested ==
  IF args.list THEN {}
  ELSE IF args.all THEN {n \in AllNames : ScriptExists(n)}
  ELSE IF args.benchmark # None THEN {args.benchmark}
  ELSE {}

\* the result of the first run of n, had its script written the same
\* stdout and exited as e does
OtherResult(n, e) ==
  IF children[n] # <<>> /\ ChildExited(children[n][1])
  THEN TryExcept(n, [children[n][1] EXCEPT !.returncode = e.returncode,
                                           !.err = e.err],
                 returned[n][1].timestamp).result
  ELSE returned[n][1]

\* C12: the exit status of the script is recorded in the result but does
\* not decide pass or fail: a run whose script writes the same stdout and
\* exits with another status returns a result with the same passed value
\* (and the same fields but exit_code and stderr), and main exits with the
\* same status.
C12_ExitCodeDoesNotDecidePassed ==
  /\ \A n \in AllNames : \A e \in Exits :
       (returned[n] # <<>> /\ children[n] # <<>>
          /\ ChildExited(children[n][1])) =>
         With(OtherResult(n, e), LAMBDA other :
           /\ Get(other, "passed", None) = Get(returned[n][1], "passed", None)
           /\ DOMAIN other = DOMAIN returned[n][1]
           /\ \A k \in DOMAIN returned[n][1] \ {"exit_code", "stderr"} :
                other[k] = returned[n][1][k]
           /\ "exit_code" \in DOMAIN returned[n][1] =>
                /\ returned[n][1].exit_code = children[n][1].returncode
                /\ other.exit_code = e.returncode)
  /\ (pc = "exit" /\ Requested # {}) =>
       With([n \in Requested |->
               [e \in Exits |-> HasTruePassed(OtherResult(n, e))]],
            LAMBDA passes :
              \A alt \in [Requested -> Exits] :
                (status = <<0>>) = (\A n \in Requested : passes[n][alt[n]]))

\* a single run whose script printed passed: true and exited with 1: main
\* exited with 0, and the result records the 1
C12_Witness ==
  /\ pc = "exit"
  /\ args.benchmark # None
  /\ ~args.all
  /\ ~args.list
  /\ children[args.benchmark] # <<>>
  /\ children[args.benchmark][1].returncode = 1
  /\ HasTruePassed(returned[args.benchmark][1])
  /\ returned[args.benchmark][1].exit_code = 1
  /\ status = <<0>>

\* the k-th file the runner wrote was written by save_result
IsSaveResult(k) == saved[k].path.stem # "all_benchmarks"

\* the files of the directory that carry the name save_result gives
ResultFiles ==
  {f \in DOMAIN results_dir : f.stem \notin {"all_benchmarks", "notes"}}

\* C13: save_result writes each result to a uniquely named file: any two
\* save_result calls on the same results directory write to distinct
\* paths, no save overwrites a result saved before, and the number of
\* result files equals the number of saves.
C13_SavesNeverCollide ==
  /\ \A i, j \in 1..Len(saved) :
       (i < j /\ IsSaveResult(i) /\ IsSaveResult(j)) =>
         saved[i].path # saved[j].path
  /\ \A i \in 1..Len(saved) :
       IsSaveResult(i) =>
         json_load(results_dir[saved[i].path]).val = saved[i].wrote[1]
  /\ Cardinality(ResultFiles) =
       Cardinality({k \in 1..Len(saved) : IsSaveResult(k)})

\* the generator's main has run
Generated == gpc \in {"exit 0", "exit 1"}

\* s and t hold the same elements the same number of times
SameMultiset(s, t) ==
  /\ Len(s) = Len(t)
  /\ \A i \in 1..Len(s) : Count(s, s[i]) = Count(t, s[i])

\* C14: after any sequence of completed runner invocations into a results
\* directory (single runs saved by save_result, sweeps saved as one
\* combined file), load_results returns exactly the multiset of results
\* those invocations produced, each with all its fields unchanged: none
\* lost, none duplicated, sweep files flattened.
C14_LoadReturnsAllProduced ==
  (Generated /\ ForeignPath \notin DOMAIN results_dir) =>
    SameMultiset(loaded, Produced)

\* the file f holds a JSON document
IsValidFile(f) == results_dir[f].readable /\ results_dir[f].valid

\* the file f holds a wrapper object, with a results list
IsWrapper(f) == IsValidFile(f) /\ "results" \in DOMAIN results_dir[f].doc

\* the file f holds a bare result object
IsBare(f) == IsValidFile(f) /\ "results" \notin DOMAIN results_dir[f].doc

\* the results the file f holds: the one of a bare file, those of the list
\* of a wrapper, none when the file is no JSON
Contents(f) ==
  IF IsWrapper(f) THEN json_load(results_dir[f]).val.results.items
  ELSE IF IsBare(f) THEN <<json_load(results_dir[f]).val>>
  ELSE <<>>

\* the results each file of the directory holds
AllContents == [f \in DOMAIN results_dir |-> Contents(f)]

\* how often the result v occurs in the files, held[f] being the results
\* of the file f
Occurrences(held, v) ==
  sum([k \in 1..Len(listing) |-> Count(held[listing[k]], v)])

\* C15: load_results accepts both shapes: when every file of the
\* directory is a bare result object or a wrapper object with a results
\* list, it returns a flat list that holds every bare result once and
\* every element of every results list once; its length is the number of
\* bare files plus the sum of the lengths of the results lists.
C15_BothShapesFlattened ==
  (Generated /\ \A f \in DOMAIN results_dir : IsValidFile(f)) =>
    /\ warned = {}
    /\ Len(loaded) =
         Cardinality({f \in DOMAIN results_dir : IsBare(f)})
           + sum([k \in 1..Len(listing) |->
                    IF IsWrapper(listing[k])
                    THEN Len(results_dir[listing[k]].doc.results.items)
                    ELSE 0])
    /\ With(AllContents, LAMBDA held :
         /\ \A i \in 1..Len(loaded) :
              /\ "results" \notin DOMAIN loaded[i]
              /\ Count(loaded, loaded[i]) = Occurrences(held, loaded[i])
         /\ \A f \in DOMAIN results_dir : \A i \in 1..Len(held[f]) :
              Count(loaded, held[f][i]) = Occurrences(held, held[f][i]))

\* a directory with one bare file and one wrapper file of two results:
\* three results were loaded
C15_Witness ==
  /\ Generated
  /\ Cardinality(DOMAIN results_dir) = 2
  /\ \E f, g \in DOMAIN results_dir :
       IsBare(f) /\ IsWrapper(g)
       /\ Len(results_dir[g].doc.results.items) = 2
  /\ Len(loaded) = 3

\* C16: load_results does not raise because of a file that cannot be read
\* or holds no valid JSON: the file is skipped with a warning and
\* contributes no result, and the results of every valid file of the
\* directory are returned, wherever in the listing the bad file comes.
C16_BadFileSkipped ==
  Generated =>
    /\ warned = {f \in DOMAIN results_dir : ~IsValidFile(f)}
    /\ With(AllContents, LAMBDA held :
         /\ Len(loaded) = sum([k \in 1..Len(listing) |->
                                 Len(held[listing[k]])])
         /\ \A f \in DOMAIN results_dir : \A i \in 1..Len(held[f]) :
              Count(loaded, held[f][i]) = Occurrences(held, held[f][i])
         /\ (\E f \in DOMAIN results_dir : held[f] # <<>>) =>
              gpc = "exit 0")

\* a file that holds no JSON was listed first and skipped, and the result
\* of the file after it was loaded
C16_Witness ==
  /\ Generated
  /\ Len(listing) = 2
  /\ listing[1] = ForeignPath
  /\ results_dir[ForeignPath].readable
  /\ ~results_dir[ForeignPath].valid
  /\ warned = {ForeignPath}
  /\ loaded = Contents(listing[2])
  /\ loaded # <<>>

\* the key group_by_benchmark files the result under
GroupKey(r) == IF "benchmark" \in DOMAIN r THEN r.benchmark ELSE "unknown"

\* C17: group_by_benchmark partitions its input: every result is in
\* exactly one group, the one of its benchmark field, or of "unknown" when
\* it has none; no result is dropped or duplicated, no group is empty, and
\* the results of a group are in input order.
C17_GroupsPartitionInput ==
  gpc = "exit 0" =>
    /\ DOMAIN grouped.lists = {GroupKey(loaded[i]) : i \in 1..Len(loaded)}
    /\ \A name \in DOMAIN grouped.lists :
         /\ grouped.lists[name] # <<>>
         /\ grouped.lists[name] =
              SelectSeq(loaded, LAMBDA r : GroupKey(r) = name)
    /\ sum([k \in 1..Len(grouped.keys) |->
              Len(grouped.lists[grouped.keys[k]])]) = Len(loaded)
    /\ \A i \in 1..Len(loaded) :
         Cardinality({name \in DOMAIN grouped.lists :
                        Count(grouped.lists[name], loaded[i]) > 0}) = 1

\* three results were grouped, one of them without a benchmark field: it is
\* in the group "unknown"
C17_Witness ==
  /\ gpc = "exit 0"
  /\ Len(loaded) = 3
  /\ \E i \in 1..3 : "benchmark" \notin DOMAIN loaded[i]
  /\ DOMAIN grouped.lists = {"a", "b", "unknown"}
  /\ Len(grouped.lists["unknown"]) = 1

\* the score of a result, 0 when it has none
ScoreOf(r) == IF "final_score" \in DOMAIN r THEN r.final_score ELSE 0

RECURSIVE TotalScore(_)
\* the scores of the results added up
TotalScore(rs) ==
  IF rs = <<>> THEN 0 ELSE ScoreOf(Head(rs)) + TotalScore(Tail(rs))

\* the fraction x is the quotient a / b
IsQuotient(x, a, b) == x.den # 0 /\ x.num * b = a * x.den

\* three results with the scores 80, 90, 100, the last one not passed
Fixture ==
  << [benchmark |-> "a", passed |-> TRUE, final_score |-> 80],
     [benchmark |-> "a", passed |-> TRUE, final_score |-> 90],
     [benchmark |-> "a", passed |-> FALSE, final_score |-> 100] >>

\* C18: calculate_statistics returns, for the empty list, count 0 and 0
\* for the average, the minimum, the maximum and the pass rate; for any
\* other list, count is its length, avg_score the arithmetic mean of the
\* final_score fields with a missing one taken as 0, min_score and
\* max_score the extremes of these scores, and pass_rate 100 times the
\* share of results whose passed is true. The scores 80, 90, 100 with
\* passed true, true, false give 90, 80, 100 and a rate printed as 66.7.
C18_StatisticsMatchReference ==
  /\ stats.called =>
       /\ DOMAIN stats.returned =
            {"count", "avg_score", "min_score", "max_score", "pass_rate"}
       /\ stats.returned.count = Len(stats.results)
       /\ stats.results = <<>> =>
            /\ IsQuotient(stats.returned.avg_score, 0, 1)
            /\ IsQuotient(stats.returned.pass_rate, 0, 1)
            /\ stats.returned.min_score = 0
            /\ stats.returned.max_score = 0
       /\ stats.results # <<>> =>
            /\ IsQuotient(stats.returned.avg_score,
                          TotalScore(stats.results), Len(stats.results))
            /\ IsQuotient(stats.returned.pass_rate,
                          100 * Cardinality({k \in 1..Len(stats.results) :
                                               HasTruePassed(stats.results[k])}),
                          Len(stats.results))
            /\ \E k \in 1..Len(stats.results) :
                 stats.returned.min_score = ScoreOf(stats.results[k])
            /\ \E k \in 1..Len(stats.results) :
                 stats.returned.max_score = ScoreOf(stats.results[k])
            /\ \A k \in 1..Len(stats.results) :
                 /\ stats.returned.min_score <= ScoreOf(stats.results[k])
                 /\ stats.returned.max_score >= ScoreOf(stats.results[k])
  /\ IsQuotient(calculate_statistics(Fixture).avg_score, 90, 1)
  /\ calculate_statistics(Fixture).min_score = 80
  /\ calculate_statistics(Fixture).max_score = 100
  /\ fmt1(calculate_statistics(Fixture).pass_rate) = 667

\* statistics of three results, one passed with 100, one failed with 40
\* and one without a score: the average is 140 / 3, the minimum 0
C18_Witness ==
  /\ stats.called
  /\ Len(stats.results) = 3
  /\ \E k \in 1..3 : "final_score" \notin DOMAIN stats.results[k]
  /\ IsQuotient(stats.returned.avg_score, 140, 3)
  /\ stats.returned.min_score = 0
  /\ stats.returned.max_score = 100
  /\ fmt1(stats.returned.pass_rate) = 333

\* the leaderboard the generator rendered
Leaderboard == outputs[Len(outputs)]

\* the loaded results of the benchmark name, in load order
RunsOf(name) == SelectSeq(loaded, LAMBDA r : GroupKey(r) = name)

\* the results a: passed, 100 and b: failed, 40 were loaded, in either
\* order
LoadedExample ==
  /\ Len(loaded) = 2
  /\ \E i, j \in 1..2 :
       /\ GroupKey(loaded[i]) = "a"
       /\ HasTruePassed(loaded[i])
       /\ ScoreOf(loaded[i]) = 100
       /\ GroupKey(loaded[j]) = "b"
       /\ ~HasTruePassed(loaded[j])
       /\ ScoreOf(loaded[j]) = 40

\* C19: the Markdown leaderboard has exactly one table row per distinct
\* benchmark name, the rows in alphabetical order, each with the
\* statistics of that benchmark; the overall statistics are those of all
\* results together; the detailed section lists the benchmarks in the same
\* order and the runs of each in load order. The results a: passed, 100
\* and b: failed, 40 give two rows, a with average 100.0 and rate 100.0%,
\* b with 40.0 and 0.0%, and the overall average 70.0.
C19_OneSortedRowPerBenchmark ==
  gpc = "exit 0" =>
    /\ Len(Leaderboard.table) =
         Cardinality({GroupKey(loaded[i]) : i \in 1..Len(loaded)})
    /\ \A i \in 1..Len(Leaderboard.table) :
         /\ \E k \in 1..Len(loaded) :
              GroupKey(loaded[k]) = Leaderboard.table[i].benchmark
         /\ \A j \in (i + 1)..Len(Leaderboard.table) :
              StrLess(Leaderboard.table[i].benchmark,
                      Leaderboard.table[j].benchmark)
         /\ Leaderboard.table[i].stats =
              FormatStatistics(calculate_statistics(
                                 RunsOf(Leaderboard.table[i].benchmark)))
    /\ Leaderboard.overall.count = Len(loaded)
    /\ Leaderboard.overall.avg_score =
         fmt1(Frac(TotalScore(loaded), Len(loaded)))
    /\ Leaderboard.overall.pass_rate =
         fmt1(Frac(100 * Cardinality({k \in 1..Len(loaded) :
                                        HasTruePassed(loaded[k])}),
                   Len(loaded)))
    /\ \A k \in 1..Len(loaded) :
         /\ Leaderboard.overall.min_score <= ScoreOf(loaded[k])
         /\ Leaderboard.overall.max_score >= ScoreOf(loaded[k])
    /\ Len(Leaderboard.detailed) = Len(Leaderboard.table)
    /\ \A i \in 1..Len(Leaderboard.detailed) :
         /\ Leaderboard.detailed[i].benchmark = Leaderboard.table[i].benchmark
         /\ Len(Leaderboard.detailed[i].runs) =
              Len(RunsOf(Leaderboard.detailed[i].benchmark))
         /\ \A j \in 1..Len(Leaderboard.detailed[i].runs) :
              Leaderboard.detailed[i].runs[j] =
                RunLine(j, RunsOf(Leaderboard.detailed[i].benchmark)[j])
    /\ LoadedExample =>
         /\ Len(Leaderboard.table) = 2
         /\ Leaderboard.table[1].benchmark = "a"
         /\ Leaderboard.table[1].stats.avg_score = 1000
         /\ Leaderboard.table[1].stats.pass_rate = 1000
         /\ Leaderboard.table[2].benchmark = "b"
         /\ Leaderboard.table[2].stats.avg_score = 400
         /\ Leaderboard.table[2].stats.pass_rate = 0
         /\ Leaderboard.overall.avg_score = 700

\* the leaderboard of two files, listed b first: a: passed, 100 and
\* b: failed, 40
C19_Witness ==
  /\ gpc = "exit 0"
  /\ LoadedExample
  /\ GroupKey(loaded[1]) = "b"
  /\ Len(listing) = 2
  /\ Leaderboard.table[1].benchmark = "a"
  /\ Leaderboard.overall.avg_score = 700

\* the leaderboard a run of the generator makes of the directory when glob
\* lists its files in this order and the clock reads this
Regenerated(order, clock) ==
  generate_markdown_leaderboard(
    group_by_benchmark(load_results(results_dir, order).results), clock)

\* the two leaderboards are the same but for the time of generation
SameButTimestamp(x, y) == [x EXCEPT !.generated = y.generated] = y

\* the run line without its number
Unnumbered(line) == [line EXCEPT !.run = 0]

\* the two detailed sections list the same benchmarks in the same order,
\* and for each the same runs, in some order
SameRunsInSomeOrder(x, y) ==
  /\ Len(x) = Len(y)
  /\ \A i \in 1..Len(x) :
       /\ x[i].benchmark = y[i].benchmark
       /\ SameMultiset([j \in 1..Len(x[i].runs) |-> Unnumbered(x[i].runs[j])],
                       [j \in 1..Len(y[i].runs) |-> Unnumbered(y[i].runs[j])])

\* C20 as claimed: generating the leaderboard again from the same
\* unchanged results directory gives the same output apart from the
\* generation timestamp, whatever order the directory listing returns
\* the files in.
C20_SameOutputWhateverOrder ==
  gpc = "exit 0" =>
    \A order \in Listings(DOMAIN results_dir) : \A clock \in 0..MaxTicks :
      SameButTimestamp(Regenerated(order, clock), Leaderboard)

\* C20 as amended: generating the leaderboard again from the same
\* unchanged results directory gives the same output apart from the
\* generation timestamp when the directory listing returns the files in
\* the same order; in any other order the overall statistics and the
\* table are still the same, and the detailed section lists the same
\* benchmarks with the same runs, but the runs of a benchmark can come in
\* another order.
C20_SameOutputForSameListing ==
  gpc = "exit 0" =>
    \A order \in Listings(DOMAIN results_dir) :
      With(Regenerated(order, 0), LAMBDA again :
        /\ order = listing =>
             \A clock \in 0..MaxTicks :
               SameButTimestamp([again EXCEPT !.generated = clock],
                                Leaderboard)
        /\ again.overall = Leaderboard.overall
        /\ again.table = Leaderboard.table
        /\ SameRunsInSomeOrder(again.detailed, Leaderboard.detailed))

\* two files with different results of the same benchmark: listed the
\* other way round they give another detailed section
C20_Witness ==
  /\ gpc = "exit 0"
  /\ Len(listing) = 2
  /\ Len(loaded) = 2
  /\ GroupKey(loaded[1]) = GroupKey(loaded[2])
  /\ Regenerated(<<listing[2], listing[1]>>, now).detailed
       # Leaderboard.detailed
  /\ Regenerated(<<listing[2], listing[1]>>, now).table = Leaderboard.table

\* the leaderboard main renders from what was loaded, in the format asked
\* for
Rendering ==
  IF gargs.format = "markdown"
  THEN generate_markdown_leaderboard(group_by_benchmark(loaded), now)
  ELSE json_dumps(generate_json_leaderboard(group_by_benchmark(loaded), now))

\* a leaderboard is among the lines printed
LeaderboardPrinted ==
  \E i \in 1..Len(printed) : printed[i].line = "leaderboard"

\* C21: the generator exits with 1 exactly when the results directory does
\* not exist or load_results returned no results, and then it has rendered
\* no leaderboard, printed none and written none to the file of --output;
\* in every other case it exits with 0 after it has printed the complete
\* leaderboard or written it to that file.
C21_ExitOneIffNothingToShow ==
  Generated =>
    /\ gpc = "exit 1" <=> (gargs.results_dir = "nowhere" \/ loaded = <<>>)
    /\ gpc = "exit 1" =>
         outputs = <<>> /\ outfile = <<>> /\ ~LeaderboardPrinted
    /\ gpc = "exit 0" =>
         /\ outputs = <<Rendering>>
         /\ IF gargs.output = None
            THEN /\ Last(printed) = [line |-> "leaderboard", of |-> Rendering]
                 /\ outfile = <<>>
            ELSE outfile = <<Rendering>> /\ ~LeaderboardPrinted

\* the generator wrote the leaderboard as JSON
JsonGenerated == gpc = "exit 0" /\ gargs.format = "json"

\* C22: the JSON leaderboard says what the Markdown leaderboard of the same
\* groups says: its overall statistics are the statistics of all results,
\* which print as the Markdown overall statistics; it has the benchmarks of
\* the Markdown table, in the same order, each with statistics that print
\* as the row of the table, and with the runs of that benchmark, unchanged
\* and in load order; the runs of all benchmarks together are the results
\* loaded.
C22_JsonEquivalentToMarkdown ==
  JsonGenerated =>
    With(generate_markdown_leaderboard(grouped, now), LAMBDA md :
      /\ Leaderboard.overall_statistics = calculate_statistics(loaded)
      /\ FormatStatistics(Leaderboard.overall_statistics) = md.overall
      /\ Leaderboard.benchmarks.keys =
           [i \in 1..Len(md.table) |-> md.table[i].benchmark]
      /\ DOMAIN Leaderboard.benchmarks.dict =
           {GroupKey(loaded[i]) : i \in 1..Len(loaded)}
      /\ \A i \in 1..Len(md.table) :
           With(Leaderboard.benchmarks.dict[md.table[i].benchmark],
                LAMBDA entry :
             /\ FormatStatistics(entry.statistics) = md.table[i].stats
             /\ entry.runs =
                  List([j \in 1..Len(RunsOf(md.table[i].benchmark)) |->
                          EncodeResult(RunsOf(md.table[i].benchmark)[j])])
             /\ Len(entry.runs.items) = md.table[i].stats.count)
      /\ sum([i \in 1..Len(md.table) |->
                Len(Leaderboard.benchmarks.dict[
                      md.table[i].benchmark].runs.items)]) = Len(loaded))

\* a JSON leaderboard of three results: two benchmarks, one of them with a
\* passed and a failed run of different scores
C22_Witness ==
  /\ JsonGenerated
  /\ Len(loaded) = 3
  /\ Cardinality(DOMAIN Leaderboard.benchmarks.dict) = 2
  /\ \E name \in DOMAIN Leaderboard.benchmarks.dict :
       /\ Len(Leaderboard.benchmarks.dict[name].runs.items) = 2
       /\ Leaderboard.benchmarks.dict[name].statistics.min_score
            < Leaderboard.benchmarks.dict[name].statistics.max_score

\* the generator ran on the directory, which holds a file of valid JSON that
\* is no result and no report
RanWithOddFile ==
  Generated /\ gargs.results_dir = "results" /\ OddPath \in DOMAIN results_dir

\* C29: a file of valid JSON of an unexpected shape is contained like any
\* other bad file: group_by_benchmark raises nothing because of it, and the
\* results of the other files are loaded and, when there are any, grouped
\* and rendered.
C29_OddFileContained ==
  RanWithOddFile =>
    /\ "exc" \notin DOMAIN grouped
    /\ \A f \in DOMAIN results_dir \ {OddPath} :
         \A i \in 1..Len(Contents(f)) :
           /\ Count(loaded, Contents(f)[i]) >= 1
           /\ gpc = "exit 0"
           /\ Count(grouped.lists[GroupKey(Contents(f)[i])], Contents(f)[i])
                >= 1

\* the script of the current run exited in time, and what it wrote decodes
\* and is the text of one JSON value
ParsedAsJson ==
  /\ run.state \in TerminalStates
  /\ Exited
  /\ IsText(run.child.err)
  /\ IsJson(run.child.out)

\* the value json.loads made of the stdout of the current run
Parsed == json_loads(TranslateNewlines(run.child.out)).val

\* the fields run_benchmark sets in the parsed output
Metadata == {"exit_code", "execution_time_ms"}

\* C23 as claimed: when the stdout of the script parses as JSON, the parsed
\* value is the result returned: every field the script printed is in the
\* result with the value printed, and exit_code is the only field added.
C23_ParsedValueIsResult ==
  ParsedAsJson =>
    /\ Parsed.kind = "object"
    /\ \A k \in DOMAIN Parsed.dict : run.result[k] = Parsed.dict[k]
    /\ DOMAIN run.result \subseteq DOMAIN Parsed.dict \cup {"exit_code"}

\* C23 as amended: when the stdout of the script parses as a JSON object,
\* the result returned is that object with two fields set by the runner:
\* exit_code, the exit status of the subprocess, and execution_time_ms,
\* None; a field of either name that the script printed is overwritten, and
\* every other field printed is in the result with the value printed. When
\* the stdout parses as JSON that is no object, the result is the error
\* result of a crashed run.
C23_ParsedObjectPlusMetadata ==
  ParsedAsJson =>
    IF Parsed.kind = "object"
    THEN /\ run.state = "COMPLETED"
         /\ DOMAIN run.result = DOMAIN Parsed.dict \cup Metadata
         /\ \A k \in DOMAIN Parsed.dict \ Metadata :
              run.result[k] = Parsed.dict[k]
         /\ run.result.exit_code = run.child.returncode
         /\ run.result.execution_time_ms = None
    ELSE /\ run.state = "CRASHED"
         /\ \E clock \in 0..now :
              run.result = CrashResult(run.name, "TypeError", clock)

\* a script printed its benchmark, passed false and the score 40, and
\* exited with 1
C23_Witness ==
  /\ ParsedAsJson
  /\ run.child.returncode = 1
  /\ DOMAIN Parsed.dict = {"benchmark", "passed", "final_score"}
  /\ run.result.final_score = 40
  /\ ~run.result.passed
  /\ run.result.benchmark = run.name

\* main was started with the name of one benchmark
IsSingle == ~args.list /\ ~args.all /\ args.benchmark # None

\* the current run returned the object its script printed
ReturnedParsedObject ==
  run.state = "COMPLETED" /\ IsJson(run.child.out)

\* C24 as claimed: every result run_benchmark(name) returns has a benchmark
\* field equal to name, so that the result of a single run is saved in the
\* file {name}_{timestamp}.json.
C24_ResultNamesItsBenchmark ==
  /\ \A n \in AllNames : \A i \in 1..Len(returned[n]) :
       "benchmark" \in DOMAIN returned[n][i] /\ returned[n][i].benchmark = n
  /\ (IsSingle /\ pc = "exit") =>
       \E clock \in 0..now :
         /\ saved = <<[path |-> [stem |-> args.benchmark,
                                 ts |-> strftime(clock)],
                       wrote |-> returned[args.benchmark]]>>
         /\ saved[1].path \in DOMAIN results_dir

\* C24 as amended: the error results run_benchmark(name) builds itself
\* (script missing, stdout that is no JSON, timeout, crash) have a benchmark
\* field equal to name; a result parsed from the stdout of the script has
\* the benchmark field the script printed, or none. The result of a single
\* run is saved in the file {benchmark}_{timestamp}.json, benchmark being
\* that field of the result, or "unknown" when the result has none.
C24_BenchmarkFieldAsPrinted ==
  /\ run.state \in TerminalStates =>
       IF ReturnedParsedObject
       THEN /\ ("benchmark" \in DOMAIN run.result)
                 = ("benchmark" \in DOMAIN Parsed.dict)
            /\ "benchmark" \in DOMAIN run.result =>
                 run.result.benchmark = Parsed.dict.benchmark
       ELSE "benchmark" \in DOMAIN run.result /\ run.result.benchmark = run.name
  /\ (IsSingle /\ pc = "exit") =>
       \E clock \in 0..now :
         /\ saved = <<[path |->
                         [stem |-> Get(returned[args.benchmark][1],
                                       "benchmark", "unknown"),
                          ts |-> strftime(clock)],
                       wrote |-> returned[args.benchmark]]>>
         /\ saved[1].path \in DOMAIN results_dir
         /\ json_load(results_dir[saved[1].path]).val = saved[1].wrote[1]

\* a single run whose script printed an object without a benchmark field:
\* the result was saved as unknown_{timestamp}.json
C24_Witness ==
  /\ IsSingle
  /\ pc = "exit"
  /\ Len(saved) = 1
  /\ saved[1].path.stem = "unknown"
  /\ DOMAIN saved[1].wrote[1] = {"passed", "exit_code", "execution_time_ms"}

\* C25: whatever the capacity and whatever was done before, a get(k) that
\* follows a put(k, v) immediately returns v, also when k is a new key and
\* the cache is at capacity.
C25_GetAfterPutReturnsValue ==
  (lru_op.op = "get" /\ lru_op.prev.op = "put" /\ lru_op.prev.key = lru_op.key)
    => lru_op.returned = <<lru_op.prev.value>>

\* the last call put a new key into a cache that was at capacity
PutNewKeyAtCapacity ==
  /\ lru_op.op = "put"
  /\ lru_op.key \notin DOMAIN lru_op.before.vals
  /\ Len(lru_op.before.keys) = capacity

\* the cache never holds more keys than its capacity, and size() says so
SizeWithinCapacity ==
  /\ capacity > 0 => Len(lru_cache.keys) <= capacity
  /\ lru_op.op = "size" => lru_op.returned[1] <= capacity

\* C26: when a new key is put into a cache at capacity, exactly one key is
\* evicted, the one that was put or found by get longest ago; every other
\* key stays with its value, the new key is there with its value; and the
\* size never exceeds the capacity.
C26_EvictsLeastRecentlyUsed ==
  /\ SizeWithinCapacity
  /\ PutNewKeyAtCapacity =>
       /\ DOMAIN lru_cache.vals =
            (DOMAIN lru_op.before.vals \ {lru_op.victim}) \cup {lru_op.key}
       /\ \A k \in DOMAIN lru_op.before.vals \ {lru_op.victim} :
            k \in DOMAIN lru_cache.vals
              /\ lru_cache.vals[k] = lru_op.before.vals[k]
       /\ lru_op.key \in DOMAIN lru_cache.vals
       /\ lru_cache.vals[lru_op.key] = lru_op.value

\* every call the threads have made has returned
CounterThreadsFinished ==
  \A t \in CounterThreads : cthread[t].program = <<>>

\* C27: no update of the counter is lost, however the threads interleave:
\* when all threads have finished, total_requests is the number of calls of
\* increment_simple and record_request made, and successful_requests +
\* failed_requests is the number of calls of record_request.
C27_NoUpdateLost ==
  CounterThreadsFinished =>
    /\ counter.total_requests = made.increment_simple + made.record_request
    /\ counter.successful_requests + counter.failed_requests
         = made.record_request

\* all threads have finished; both methods were called
C27_Witness ==
  /\ CounterThreadsFinished
  /\ CallsMade = MaxCalls
  /\ made.increment_simple >= 1
  /\ counter.successful_requests + counter.failed_requests >= 1
  /\ counter.total_requests = MaxCalls

\* the executor threads were started and each has left its loop
PoolFinished ==
  /\ phist.started
  /\ \A w \in PoolWorkers : wthread[w].program = <<>>

\* the tasks with a result, of either kind, in the results list
TasksWithResult ==
  {pool.results[i].task : i \in 1..Len(pool.results)}

\* C28: however the executor threads interleave on N tasks submitted
\* before, no task is handed to a worker twice or executed twice; when all
\* executors have finished, each task was handed to a worker once and
\* executed once, completed_tasks + failed_tasks = N, the results list has
\* N entries, no task is pending, active_workers is 0 and every worker is
\* IDLE.
C28_EachTaskExecutedOnce ==
  /\ \A k \in PoolTasks : phist.handed[k] <= 1 /\ phist.executed[k] <= 1
  /\ PoolFinished =>
       /\ \A k \in 1..phist.submitted :
            phist.handed[k] = 1 /\ phist.executed[k] = 1
       /\ pool.completed_tasks + pool.failed_tasks = phist.submitted
       /\ Len(pool.results) = phist.submitted
       /\ TasksWithResult = 1..phist.submitted
       /\ Len(pool.task_queue) = 0
       /\ pool.active_workers = 0
       /\ \A w \in PoolWorkers : pool.worker_states[w] = "idle"

\* all executors have finished MaxTasks tasks, one of which raised and one
\* of which returned, and the second task has its result before the first
C28_Witness ==
  /\ PoolFinished
  /\ phist.submitted = MaxTasks
  /\ pool.completed_tasks >= 1
  /\ pool.failed_tasks >= 1
  /\ pool.results[1].task = 2

\* load_results has returned, and a runner had a result file open for
\* writing at some time while it ran
LoadedDuringWrite == gpc = "loaded" /\ wfile.raced

\* what the file of the writer can be found to hold by a reader that
\* passes over it at one moment: the file that was there before, when
\* there was one, text that is no JSON, or the complete result
Versions ==
  {wfile.before[i] : i \in 1..Len(wfile.before)}
    \cup {NoJsonFile, JsonFile(json_dump(wfile.result))}

\* what load_results returned is what it returns for the listing when the
\* file of the writer holds v and no file is being written
ReturnedAsFor(v) ==
  [results |-> loaded, warned |-> warned]
    = load_results(Put(results_dir, wfile.path, v), listing)

\* the file of the writer was in the listing
WasListed == \E i \in 1..Len(listing) : listing[i] = wfile.path

\* C30 as stated: when load_results runs while a runner writes a result
\* file, it either loads the complete result of that file or skips the
\* file with a warning; it returns no part of a result, and the results of
\* the other files are as without the writer.
C30_LoadedOrWarned ==
  LoadedDuringWrite =>
    /\ WasListed
    /\ \E v \in Versions :
         /\ ReturnedAsFor(v)
         /\ ~v.valid => wfile.path \in warned

\* C30, amended: when load_results runs while a runner writes a result
\* file, it loads a complete result of that file (the one being written
\* or the one the file held before), or skips the file with a warning, or
\* does not visit the file at all because the file was created after the
\* directory was listed; it returns no part of a result, and the results
\* and warnings of the other files are as without the writer. What the
\* writer has closed is the file save_result is to leave.
C30_LoadedWarnedOrNotListed ==
  /\ LoadedDuringWrite =>
       /\ \E v \in Versions :
            /\ ReturnedAsFor(v)
            /\ (WasListed /\ ~v.valid) => wfile.path \in warned
       /\ ~WasListed => wfile.path \notin warned
  /\ wfile.pc = "closed" =>
       results_dir[wfile.path] = JsonFile(json_dump(wfile.result))

\* load_results ran while the file was written, found a part of the text
\* in it and skipped it with a warning, and loaded the result of another
\* file
C30_Witness ==
  /\ LoadedDuringWrite
  /\ wfile.pc = "open"
  /\ wfile.flushed > 0
  /\ wfile.flushed < Len(wfile.text)
  /\ wfile.path \in warned
  /\ loaded # <<>>

====
